---------------------------- MODULE Spec2Model ----------------------------
(***************************************************************************)
(* A model of the raystack SkySpark client: the SCRAM authentication       *)
(* handshake (src/src/auth.rs) and the token-refresh-and-retry wrapper     *)
(* round every API call (src/src/lib.rs, src/src/blocking.rs).             *)
(*                                                                         *)
(* Text is modelled as a sequence of symbols.  A symbol is either one      *)
(* character, Ch(c), or a run of base64 alphabet characters that encodes   *)
(* a payload, B64Sym(p).  The output of the cryptographic primitives of    *)
(* the ring crate (PBKDF2, HMAC, digest) is a symbolic term that records   *)
(* the hash function and the inputs, so two outputs are equal exactly when *)
(* they were computed by the same function from the same inputs.           *)
(***************************************************************************)
EXTENDS Integers, Sequences, FiniteSets, TLC

(***************************************************************************)
(* Text                                                                    *)
(***************************************************************************)
Ch(c) == [c |-> c]

Str(cs) == [i \in 1..Len(cs) |-> Ch(cs[i])]

IsCh(a) == "c" \in DOMAIN a

IsB64Sym(a) == "b64" \in DOMAIN a

B64Sym(p) == [b64 |-> p]

EQ == Ch("=")

\* str::to_lowercase, on the letters that occur in the model
LowerCh(a) ==
    IF ~IsCh(a) THEN a
    ELSE CASE a.c = "S" -> Ch("s")
           [] a.c = "C" -> Ch("c")
           [] a.c = "R" -> Ch("r")
           [] a.c = "A" -> Ch("a")
           [] a.c = "M" -> Ch("m")
           [] a.c = "H" -> Ch("h")
           [] a.c = "T" -> Ch("t")
           [] OTHER -> a

to_lowercase(s) == [i \in 1..Len(s) |-> LowerCh(s[i])]

Ok(v) == [ok |-> TRUE, val |-> v]

Err(e) == [ok |-> FALSE, err |-> e]

None == [none |-> TRUE]

(***************************************************************************)
(* Error kinds of the handshake                                            *)
(***************************************************************************)
\* HandshakeError::KeyValuePairParse(KeyValuePairParseError { msg })
KeyValuePairParseError(msg) == [kind |-> "KeyValuePairParse", msg |-> msg]

\* HandshakeError::Base64Decode(Base64DecodeError { msg })
Base64DecodeError(msg) == [kind |-> "Base64Decode", msg |-> msg]

\* HandshakeError::ParseHashFunction(ParseHashFunctionError)
ParseHashFunctionError == [kind |-> "ParseHashFunction", msg |-> "unsupported hash function"]

\* HandshakeError::ParseIterations(ParseIterationsError)
ParseIterationsError == [kind |-> "ParseIterations", msg |-> "iteration count is not an integer"]

\* HandshakeError::GenerateNonce(GenerateNonceError)
GenerateNonceError == [kind |-> "GenerateNonce", msg |-> "random generator failed"]

\* The variants of the enum HandshakeError
HandshakeErrorKinds ==
    {"Base64Decode", "GenerateNonce", "HeaderToStr", "KeyValuePairParse",
     "ParseHashFunction", "ParseIterations", "Utf8Decode"}

\* InternalAuthError::Handshake, ::Http, ::ServerValidation
Handshake(e) == [variant |-> "Handshake", err |-> e]

InternalHttp == [variant |-> "Http"]

ServerValidation(url) == [variant |-> "ServerValidation", server_id |-> url]

\* a variant of the conversion that reports a failed server validation as
\* an internal error
AuthError_from_downgrading(e) ==
    CASE e.variant = "Handshake" -> [variant |-> "Internal", err |-> e.err]
      [] e.variant = "Http" -> [variant |-> "Http"]
      [] e.variant = "ServerValidation" ->
            [variant |-> "Internal", err |-> [kind |-> "ServerValidation"]]

\* impl From<InternalAuthError> for AuthError
AuthError_from(e) ==
    CASE e.variant = "Handshake" -> [variant |-> "Internal", err |-> e.err]
      [] e.variant = "Http" -> [variant |-> "Http"]
      [] e.variant = "ServerValidation" ->
            [variant |-> "ServerValidation", server_id |-> e.server_id]

(***************************************************************************)
(* Key-value parsing                                                       *)
(***************************************************************************)
delimiters == {Ch(" "), Ch(",")}

\* str::split(delimiters): the fragments between delimiters, empty ones
\* included.  The fragment k lies between the cuts k and k + 1, where the
\* cuts are the positions of the delimiters and the two ends of the text.
split(s) ==
    LET cuts == {0, Len(s) + 1} \cup {i \in 1..Len(s) : s[i] \in delimiters}
        cut(k) == CHOOSE c \in cuts : Cardinality({d \in cuts : d < c}) = k - 1
    IN [k \in 1..(Cardinality(cuts) - 1) |-> SubSeq(s, cut(k) + 1, cut(k + 1) - 1)]

\* str::find('='): the first index of '=', 0 when there is none
find_eq(s) ==
    IF \E i \in 1..Len(s) : s[i] = EQ
    THEN CHOOSE i \in 1..Len(s) : s[i] = EQ /\ \A j \in 1..(i - 1) : s[j] # EQ
    ELSE 0

\* str::trim_start_matches('='): the text from the first symbol that is not '='
trim_start_matches_eq(s) ==
    IF \A i \in 1..Len(s) : s[i] = EQ THEN <<>>
    ELSE LET first == CHOOSE i \in 1..Len(s) :
                          s[i] # EQ /\ \A j \in 1..(i - 1) : s[j] = EQ
         IN SubSeq(s, first, Len(s))

SCRAM_lower == Str(<<"s", "c", "r", "a", "m">>)

\* a variant that ignores the token SCRAM in upper case only
kv_filter_case_sensitive(frag) == frag # Str(<<"S", "C", "R", "A", "M">>) /\ frag # <<>>

\* the filter closure of parse_key_value_pairs
kv_filter(frag) == to_lowercase(frag) # SCRAM_lower /\ frag # <<>>

\* the map closure of parse_key_value_pairs
kv_map(frag) ==
    LET delimiter_index == find_eq(frag) IN
    IF delimiter_index # 0
    THEN Ok(<<SubSeq(frag, 1, delimiter_index - 1),
              trim_start_matches_eq(SubSeq(frag, delimiter_index, Len(frag)))>>)
    ELSE Err(KeyValuePairParseError("No '=' symbol in key-value pair"))

\* collect::<Result<Vec<_>, _>>(): the first error, or all the values
RECURSIVE collect(_)
collect(rs) ==
    IF rs = <<>> THEN Ok(<<>>)
    ELSE IF ~Head(rs).ok THEN Head(rs)
    ELSE LET rest == collect(Tail(rs)) IN
         IF rest.ok THEN Ok(<<Head(rs).val>> \o rest.val) ELSE rest

parse_key_value_pairs(s) ==
    LET frags == SelectSeq(split(s), kv_filter)
        mapped == [i \in 1..Len(frags) |-> kv_map(frags[i])]
    IN collect(mapped)

\* KeyValuePairs::get
KeyValuePairs_get(kvps, key) ==
    IF \E i \in 1..Len(kvps) : kvps[i][1] = key
    THEN LET i == CHOOSE i \in 1..Len(kvps) :
                     kvps[i][1] = key /\ \A j \in 1..(i - 1) : kvps[j][1] # key
         IN Ok(kvps[i][2])
    ELSE Err(KeyValuePairParseError("missing key in key-value pairs"))

\* A response header is absent, present but not visible ASCII, or text
HeaderAbsent == [hdr |-> "absent"]

HeaderNotStr == [hdr |-> "not a string"]

HeaderText(s) == [hdr |-> "text", text |-> s]

parse_key_value_pairs_from_header(header, res) ==
    LET header_value == res.headers[header] IN
    IF header_value = HeaderAbsent
    THEN Err(KeyValuePairParseError("missing HTTP header"))
    ELSE IF header_value = HeaderNotStr
    THEN Err(KeyValuePairParseError("could not convert HTTP header to a string"))
    ELSE parse_key_value_pairs(header_value.text)

(***************************************************************************)
(* Hash functions and the primitives of the ring crate                     *)
(***************************************************************************)
SHA_256 == Str(<<"S", "H", "A", "-", "2", "5", "6">>)

SHA_512 == Str(<<"S", "H", "A", "-", "5", "1", "2">>)

\* impl FromStr for HashFunction
HashFunction_from_str(s) ==
    CASE s = SHA_256 -> Ok("Sha256")
      [] s = SHA_512 -> Ok("Sha512")
      [] OTHER -> Err(ParseHashFunctionError)

\* HashFunction::dk_len
dk_len(hash_fn) == IF hash_fn = "Sha256" THEN 32 ELSE 64

\* str::as_bytes and byte string literals
as_bytes(s) == [txt |-> s]

ClientKeyLit == [lit |-> "Client Key", len |-> 10]

ServerKeyLit == [lit |-> "Server Key", len |-> 10]

\* HashFunction::pbkdf2: dk_len bytes derived from key, salt and iterations
pbkdf2(hash_fn, key, salt, iterations) ==
    [fn |-> "pbkdf2", hf |-> hash_fn, key |-> key, salt |-> salt,
     iterations |-> iterations, len |-> dk_len(hash_fn)]

\* a variant that signs with HMAC-SHA256 whatever hash function was chosen
hmac_sign_sha256_only(hash_fn, key_value, data) ==
    [fn |-> "hmac", hf |-> "Sha256", key |-> key_value, data |-> data, len |-> 32]

\* HashFunction::hmac_sign: a tag of the output length of the algorithm
hmac_sign(hash_fn, key_value, data) ==
    [fn |-> "hmac", hf |-> hash_fn, key |-> key_value, data |-> data,
     len |-> IF hash_fn = "Sha256" THEN 32 ELSE 64]

\* HashFunction::digest
digest(hash_fn, input) ==
    [fn |-> "digest", hf |-> hash_fn, input |-> input,
     len |-> IF hash_fn = "Sha256" THEN 32 ELSE 64]

Min(a, b) == IF a < b THEN a ELSE b

\* a.iter().zip(b).map(|(x, y)| x ^ y).collect(): as long as the shorter one
xor_zip(a, b) == [fn |-> "xor", a |-> a, b |-> b, len |-> Min(a.len, b.len)]

(***************************************************************************)
(* Base64 (the base64 crate)                                               *)
(***************************************************************************)
\* the number of base64 characters that encode n bytes, padding excluded
b64_chars(n) == (4 * n + 2) \div 3

\* the number of '=' characters that pad the encoding of n bytes
b64_pad(n) == (3 - (n % 3)) % 3

RECURSIVE text_len(_)
text_len(s) ==
    IF s = <<>> THEN 0
    ELSE (IF IsCh(Head(s)) THEN 1
          ELSE LET p == Head(s).b64 IN
               b64_chars(IF "txt" \in DOMAIN p THEN text_len(p.txt) ELSE p.len))
         + text_len(Tail(s))

byte_len(bytes) == IF "txt" \in DOMAIN bytes THEN text_len(bytes.txt) ELSE bytes.len

is_empty(bytes) == "txt" \in DOMAIN bytes /\ bytes.txt = <<>>

\* base64_encode_no_padding: Config::new(CharacterSet::Standard, false)
base64_encode_no_padding(bytes) ==
    IF is_empty(bytes) THEN <<>> ELSE <<B64Sym(bytes)>>

\* base64::encode: the standard alphabet with '=' padding
base64_encode(bytes) ==
    IF is_empty(bytes) THEN <<>>
    ELSE <<B64Sym(bytes)>> \o [i \in 1..b64_pad(byte_len(bytes)) |-> EQ]

\* base64::decode / decode_config: the bytes, or an error.  Decoding does
\* not depend on the padding setting: it accepts the canonical padding and
\* its absence.
base64_decode(s) ==
    IF s = <<>> THEN Ok(as_bytes(<<>>))
    ELSE IF IsB64Sym(Head(s))
            /\ \A i \in 2..Len(s) : s[i] = EQ
            /\ (Len(s) = 1 \/ Len(s) - 1 = b64_pad(byte_len(Head(s).b64)))
    THEN Ok(Head(s).b64)
    ELSE Err("invalid base64")

\* base64_decode_no_padding: decode, then String::from_utf8
base64_decode_no_padding(s) ==
    LET bytes == base64_decode(s) IN
    IF ~bytes.ok THEN Err(Base64DecodeError("invalid base64"))
    ELSE IF "txt" \in DOMAIN bytes.val THEN Ok(bytes.val.txt)
    ELSE Err(Base64DecodeError("invalid utf-8"))

(***************************************************************************)
(* Nonce                                                                   *)
(***************************************************************************)
nonce_len == 32

HexDigits == <<"0", "1", "2", "3", "4", "5", "6", "7", "8", "9",
               "a", "b", "c", "d", "e", "f">>

\* write!(&mut nonce, "{:x}", byte): lower-case hex without leading zero
fmt_x(byte) ==
    IF byte < 16 THEN <<Ch(HexDigits[byte + 1])>>
    ELSE <<Ch(HexDigits[(byte \div 16) + 1]), Ch(HexDigits[(byte % 16) + 1])>>

RECURSIVE hex_all(_)
hex_all(bytes) ==
    IF bytes = <<>> THEN <<>> ELSE fmt_x(Head(bytes)) \o hex_all(Tail(bytes))

\* a variant that hands out one and the same nonce in every attempt
generate_nonce_reused(rnd) ==
    IF ~rnd.ok THEN Err(GenerateNonceError)
    ELSE Ok(hex_all([i \in 1..nonce_len |-> 165]))

\* generate_nonce: rnd is the outcome of rng.fill, the bytes or a failure
generate_nonce(rnd) ==
    IF ~rnd.ok THEN Err(GenerateNonceError) ELSE Ok(hex_all(rnd.val))

(***************************************************************************)
(* JSON values and grids (serde_json::Value, src/src/grid.rs)              *)
(***************************************************************************)
JNull == [t |-> "null"]

JBool(b) == [t |-> "bool", b |-> b]

JString(s) == [t |-> "str", s |-> s]

JArray(a) == [t |-> "arr", a |-> a]

JObject(f) == [t |-> "obj", f |-> f]

is_object(v) == v.t = "obj"

is_array(v) == v.t = "arr"

\* Value::index(&str): Null unless the value is an object with that key
index(v, key) ==
    IF is_object(v) /\ key \in DOMAIN v.f THEN v.f[key] ELSE JNull

MARKER_LITERAL == "m:"

ParseJsonGridError(msg) == [kind |-> "ParseJsonGrid", msg |-> msg]

\* impl TryFrom<Value> for Grid
Grid_try_from(value) ==
    IF ~is_object(index(value, "meta"))
    THEN Err(ParseJsonGridError("Could not find a JSON object for 'meta'"))
    ELSE IF ~is_array(index(value, "cols"))
    THEN Err(ParseJsonGridError("Could not find a JSON array for 'cols'"))
    ELSE IF ~is_array(index(value, "rows"))
    THEN Err(ParseJsonGridError("Could not find a JSON array for 'rows'"))
    ELSE IF \E i \in 1..Len(index(value, "cols").a) :
                ~is_object(index(value, "cols").a[i])
    THEN Err(ParseJsonGridError("Expected a JSON object for col"))
    ELSE IF \E i \in 1..Len(index(value, "rows").a) :
                ~is_object(index(value, "rows").a[i])
    THEN Err(ParseJsonGridError("Expected a JSON object for row"))
    ELSE Ok([json |-> value])

\* Grid::meta
meta(grid) == index(grid.json, "meta").f

\* a variant that takes any value of meta.err for the error marker
is_error_any_value(grid) == "err" \in DOMAIN meta(grid)

\* Grid::is_error
is_error(grid) ==
    IF "err" \in DOMAIN meta(grid)
    THEN IF meta(grid)["err"].t = "str"
         THEN meta(grid)["err"].s = MARKER_LITERAL
         ELSE FALSE
    ELSE FALSE

\* Error::Http, Error::ParseJsonGrid, Error::Grid, Error::UpdateAuthToken
ErrorHttp == [kind |-> "Http"]

ErrorGrid(grid) == [kind |-> "Grid", err_grid |-> grid]

UpdateAuthToken(auth_err) == [kind |-> "UpdateAuthToken", err |-> auth_err]

\* http_response_to_grid: res.body is the outcome of res.json()
http_response_to_grid(res) ==
    IF ~res.body.ok THEN Err(ErrorHttp)
    ELSE LET grid == Grid_try_from(res.body.val) IN
         IF ~grid.ok THEN grid
         ELSE IF is_error(grid.val) THEN Err(ErrorGrid(grid.val))
         ELSE Ok(grid.val)

(***************************************************************************)
(* The operations of Grid (src/src/grid.rs).  A JSON object is a function  *)
(* from its keys; each operation gives the grid after it and what it       *)
(* returns.                                                                *)
(***************************************************************************)
\* the strings used as keys, in the order of str::cmp (bytes: 'B' < 'a')
KeyOrder == <<"B", "a", "b", "c", "expr">>

\* raystack_core::is_tag_name: a tag name begins with a lower-case letter
is_tag_name(s) == s \in {"a", "b", "c", "expr"}

\* the members of a sequence
elems(q) == {q[i] : i \in 1..Len(q)}

\* a variant that keeps the names in the order KeyOrder reversed
sort_reversed(names) ==
    LET member(n) == n \in names
        up == SelectSeq(KeyOrder, member)
    IN  [i \in 1..Len(up) |-> up[Len(up) + 1 - i]]

\* Vec::sort on the names of a HashSet: ascending, each name once
sort(names) ==
    LET member(n) == n \in names IN SelectSeq(KeyOrder, member)

\* json!({ "name": c }) for every name
all_objects(all_names) ==
    [i \in 1..Len(all_names) |-> JObject([name |-> JString(all_names[i])])]

\* Grid::cols, Grid::rows, and the grid with json["cols"] or json["rows"] set
cols(grid) == index(grid.json, "cols").a

rows(grid) == index(grid.json, "rows").a

with_cols(grid, c) == [json |-> JObject([grid.json.f EXCEPT !.cols = JArray(c)])]

with_rows(grid, r) == [json |-> JObject([grid.json.f EXCEPT !.rows = JArray(r)])]

\* Grid::col_name_strs
col_name_strs(grid) == [i \in 1..Len(cols(grid)) |-> index(cols(grid)[i], "name").s]

\* Grid::has_col_name
has_col_name(grid, name) == name \in elems(col_name_strs(grid))

\* Map::remove of keys, Map::insert
row_remove(row, keys) == JObject([k \in DOMAIN row.f \ keys |-> row.f[k]])

row_insert(row, key, value) ==
    JObject([k \in DOMAIN row.f \cup {key} |-> IF k = key THEN value ELSE row.f[k]])

\* a variant that trusts the keys of the rows
Grid_new_unchecked(rows_) ==
    Grid_try_from(JObject([meta |-> JObject([ver |-> JString("3.0")]),
                           cols |-> JArray(all_objects(sort(
                               UNION {IF is_object(rows_[i]) THEN DOMAIN rows_[i].f ELSE {}
                                      : i \in 1..Len(rows_)}))),
                           rows |-> JArray(rows_)]))

\* Grid::new
Grid_new(rows_) ==
    IF \E i \in 1..Len(rows_) : ~is_object(rows_[i])
    THEN Err(ParseJsonGridError("Expected a JSON object for row"))
    ELSE IF \E key \in UNION {DOMAIN rows_[i].f : i \in 1..Len(rows_)} : ~is_tag_name(key)
    THEN Err(ParseJsonGridError("Column name is not a valid tag name"))
    ELSE Grid_try_from(JObject([meta |-> JObject([ver |-> JString("3.0")]),
                                cols |-> JArray(all_objects(sort(
                                    UNION {DOMAIN rows_[i].f : i \in 1..Len(rows_)}))),
                                rows |-> JArray(rows_)]))

\* Grid::empty
Grid_empty == Grid_new(<<>>).val

\* Grid::add_col_names
add_col_names(grid, col_names) ==
    with_cols(grid, all_objects(sort(elems(col_name_strs(grid)) \cup elems(col_names))))

\* Grid::remove_col_names: the loop over col_names, from the names all_names
\* with the count so far
RECURSIVE remove_col_names_loop(_, _, _)
remove_col_names_loop(all_names, col_names, removed_col_count) ==
    IF col_names = <<>>
    THEN [all_names |-> all_names, removed_col_count |-> removed_col_count]
    ELSE IF Head(col_names) \in all_names
    THEN remove_col_names_loop(all_names \ {Head(col_names)}, Tail(col_names),
                               removed_col_count + 1)
    ELSE remove_col_names_loop(all_names, Tail(col_names), removed_col_count)

\* a variant that counts every name given
remove_col_names_counting_all(grid, col_names) ==
    [grid |-> with_cols(grid, all_objects(sort(
                  elems(col_name_strs(grid)) \ elems(col_names)))),
     ret |-> Len(col_names)]

remove_col_names(grid, col_names) ==
    [grid |-> with_cols(grid, all_objects(sort(
                  remove_col_names_loop(elems(col_name_strs(grid)), col_names, 0).all_names))),
     ret |-> remove_col_names_loop(elems(col_name_strs(grid)), col_names, 0).removed_col_count]

\* a variant that removes the column names and leaves the rows as they are
remove_cols_names_only(grid, col_names) == remove_col_names(grid, col_names)

\* Grid::remove_cols
remove_cols(grid, col_names) ==
    remove_col_names(
        with_rows(grid, [i \in 1..Len(rows(grid)) |->
                            row_remove(rows(grid)[i], elems(col_names))]),
        col_names)

\* Grid::remove_col
remove_col(grid, col_name) ==
    IF has_col_name(grid, col_name)
    THEN [grid |-> remove_cols(grid, <<col_name>>).grid, ret |-> TRUE]
    ELSE [grid |-> grid, ret |-> FALSE]

\* Grid::keep_cols
keep_cols(grid, cols_to_keep) ==
    LET kept(col_name) == col_name \notin elems(cols_to_keep)
        cols_to_remove == SelectSeq(col_name_strs(grid), kept)
    IN  [grid |-> remove_cols(grid, cols_to_remove).grid, ret |-> None]

\* a variant that leaves the grid alone when the two names are the same
rename_col_guarded(grid, col_name, new_col_name) ==
    IF has_col_name(grid, col_name) /\ col_name # new_col_name
    THEN [grid |-> remove_col(
                       add_col_names(
                           with_rows(grid, [i \in 1..Len(rows(grid)) |->
                               IF col_name \in DOMAIN rows(grid)[i].f
                               THEN row_insert(row_remove(rows(grid)[i], {col_name}),
                                               new_col_name, rows(grid)[i].f[col_name])
                               ELSE rows(grid)[i]]),
                           <<new_col_name>>),
                       col_name).grid,
          ret |-> TRUE]
    ELSE [grid |-> grid, ret |-> has_col_name(grid, col_name)]

\* Grid::rename_col
rename_col(grid, col_name, new_col_name) ==
    IF has_col_name(grid, col_name)
    THEN [grid |-> remove_col(
                       add_col_names(
                           with_rows(grid, [i \in 1..Len(rows(grid)) |->
                               IF col_name \in DOMAIN rows(grid)[i].f
                               THEN row_insert(row_remove(rows(grid)[i], {col_name}),
                                               new_col_name, rows(grid)[i].f[col_name])
                               ELSE rows(grid)[i]]),
                           <<new_col_name>>),
                       col_name).grid,
          ret |-> TRUE]
    ELSE [grid |-> grid, ret |-> FALSE]

\* the closures given to add_col and map_col: a constant, and the other cell
cell_fn(f, value) ==
    IF f = "other" /\ value = JString("2") THEN JString("1") ELSE JString("2")

\* Grid::add_col; the closure reads the row
add_col(grid, col_name, f) ==
    [grid |-> add_col_names(
                  with_rows(grid, [i \in 1..Len(rows(grid)) |->
                      row_insert(rows(grid)[i], col_name,
                                 cell_fn(f, index(rows(grid)[i], col_name)))]),
                  <<col_name>>),
     ret |-> None]

\* Grid::map_col
map_col(grid, col_name, f) ==
    [grid |-> with_rows(grid, [i \in 1..Len(rows(grid)) |->
                  IF col_name \in DOMAIN rows(grid)[i].f
                  THEN row_insert(rows(grid)[i], col_name,
                                  cell_fn(f, rows(grid)[i].f[col_name]))
                  ELSE rows(grid)[i]]),
     ret |-> None]

\* the comparators given to sort_rows: by the number of keys, ascending or
\* descending
compare(cmp, a, b) ==
    LET x == IF cmp = "ascending" THEN Cardinality(DOMAIN a.f) ELSE Cardinality(DOMAIN b.f)
        y == IF cmp = "ascending" THEN Cardinality(DOMAIN b.f) ELSE Cardinality(DOMAIN a.f)
    IN  IF x < y THEN "Less" ELSE IF x = y THEN "Equal" ELSE "Greater"

\* slice::sort_by, a stable sort: each row goes after the rows not greater
RECURSIVE sort_by(_, _)
sort_by(q, cmp) ==
    IF q = <<>> THEN <<>>
    ELSE LET sorted == sort_by(SubSeq(q, 1, Len(q) - 1), cmp)
             x == q[Len(q)]
             before == {i \in 1..Len(sorted) : compare(cmp, sorted[i], x) # "Greater"}
             at == IF before = {} THEN 0 ELSE CHOOSE i \in before : \A j \in before : j <= i
         IN  SubSeq(sorted, 1, at) \o <<x>> \o SubSeq(sorted, at + 1, Len(sorted))

\* Grid::sort_rows
sort_rows(grid, cmp) == [grid |-> with_rows(grid, sort_by(rows(grid), cmp)), ret |-> None]

\* a variant that adds the column names before it looks at the keys
add_rows_eager(grid, rows_) ==
    IF \E i \in 1..Len(rows_) : ~is_object(rows_[i])
    THEN [grid |-> grid,
          ret |-> Err(ParseJsonGridError("At least one row being added is not a JSON object"))]
    ELSE IF \E key \in UNION {DOMAIN rows_[i].f : i \in 1..Len(rows_)} : ~is_tag_name(key)
    THEN [grid |-> add_col_names(grid, sort({key \in UNION {DOMAIN rows_[i].f :
                                                   i \in 1..Len(rows_)} : is_tag_name(key)})),
          ret |-> Err(ParseJsonGridError("The column name is not a valid tag name"))]
    ELSE [grid |-> with_rows(add_col_names(grid,
                                 sort(UNION {DOMAIN rows_[i].f : i \in 1..Len(rows_)})),
                             rows(grid) \o rows_),
          ret |-> Ok("()")]

\* Grid::add_rows
add_rows(grid, rows_) ==
    IF \E i \in 1..Len(rows_) : ~is_object(rows_[i])
    THEN [grid |-> grid,
          ret |-> Err(ParseJsonGridError("At least one row being added is not a JSON object"))]
    ELSE IF \E key \in UNION {DOMAIN rows_[i].f : i \in 1..Len(rows_)} : ~is_tag_name(key)
    THEN [grid |-> grid,
          ret |-> Err(ParseJsonGridError("The column name is not a valid tag name"))]
    ELSE [grid |-> with_rows(add_col_names(grid,
                                 sort(UNION {DOMAIN rows_[i].f : i \in 1..Len(rows_)})),
                             rows(grid) \o rows_),
          ret |-> Ok("()")]

\* Grid::add_row
add_row(grid, row) == add_rows(grid, <<row>>)

\* Grid::concat_grid: add_rows(..).expect(..)
concat_grid(grid, other) ==
    IF add_rows(grid, rows(other)).ret.ok
    THEN [grid |-> add_rows(grid, rows(other)).grid, ret |-> None]
    ELSE [grid |-> grid, ret |-> "panicked"]

(***************************************************************************)
(* Integer parsing (str::parse::<u32>)                                     *)
(***************************************************************************)
IsDigit(a) == IsCh(a) /\ \E d \in 1..10 : a.c = HexDigits[d]

DigitVal(a) == (CHOOSE d \in 1..10 : a.c = HexDigits[d]) - 1

RECURSIVE strip_zeros(_)
strip_zeros(ds) ==
    IF Len(ds) > 1 /\ Head(ds) = 0 THEN strip_zeros(Tail(ds)) ELSE ds

\* u32::MAX, 4294967295, as decimal digits
U32_MAX == <<4, 2, 9, 4, 9, 6, 7, 2, 9, 5>>

\* a <= b for two digit sequences of the same length
RECURSIVE digits_leq(_, _)
digits_leq(a, b) ==
    IF a = <<>> THEN TRUE
    ELSE IF Head(a) # Head(b) THEN Head(a) < Head(b)
    ELSE digits_leq(Tail(a), Tail(b))

\* str::parse::<u32>: an optional '+', then one or more digits, and the
\* value fits in 32 bits.  A u32 is held as its decimal digits without
\* leading zeros, so that the whole range is covered.
parse_u32(s) ==
    LET ds == IF s # <<>> /\ Head(s) = Ch("+") THEN Tail(s) ELSE s IN
    IF ds = <<>> \/ \E i \in 1..Len(ds) : ~IsDigit(ds[i])
    THEN Err(ParseIterationsError)
    ELSE LET v == strip_zeros([i \in 1..Len(ds) |-> DigitVal(ds[i])]) IN
         IF Len(v) > 10 \/ (Len(v) = 10 /\ ~digits_leq(v, U32_MAX))
         THEN Err(ParseIterationsError)
         ELSE Ok(v)

U32_ZERO == <<0>>

(***************************************************************************)
(* Wire constants                                                          *)
(***************************************************************************)
K_handshakeToken ==
    Str(<<"h", "a", "n", "d", "s", "h", "a", "k", "e", "T", "o", "k", "e", "n">>)

K_hash == Str(<<"h", "a", "s", "h">>)

K_data == Str(<<"d", "a", "t", "a">>)

K_authToken == Str(<<"a", "u", "t", "h", "T", "o", "k", "e", "n">>)

K_r == Str(<<"r">>)

K_s == Str(<<"s">>)

K_i == Str(<<"i">>)

K_v == Str(<<"v">>)

HELLO_username == Str(<<"H", "E", "L", "L", "O", " ">>) \o
                  Str(<<"u", "s", "e", "r", "n", "a", "m", "e", "=">>)

SCRAM_handshakeToken == Str(<<"S", "C", "R", "A", "M", " ">>) \o K_handshakeToken \o <<EQ>>

comma_data == Str(<<",", " ">>) \o K_data \o <<EQ>>

BEARER_authToken == Str(<<"B", "E", "A", "R", "E", "R", " ">>) \o K_authToken \o <<EQ>>

c_biws_r == Str(<<"c", "=", "b", "i", "w", "s", ",", "r", "=">>)

comma == Str(<<",">>)

(***************************************************************************)
(* Project API URLs (src/src/lib.rs).  The text of a URL is a sequence of  *)
(* tokens: a head (scheme and what follows it up to the path), then        *)
(* delimiters and names.  Url::parse is that of the url crate.             *)
(***************************************************************************)
MaxUrlLen == 6

\* "http://h": a special scheme with a host; "mailto:x": a scheme followed
\* by an opaque path
UrlHeads == {"http://h", "mailto:x"}

UrlSyms == {"/", "?", "#", ".", "api", "p"}

\* the texts Url::parse accepts: after the host comes a delimiter or
\* nothing; an opaque path is tried with up to MaxUrlLen - 3 tokens
UrlTexts ==
    {<<"http://h">> \o rest :
        rest \in {r \in UNION {[1..n -> UrlSyms] : n \in 0..MaxUrlLen} :
                     r # <<>> => r[1] \in {"/", "?", "#"}}}
    \cup {<<"mailto:x">> \o rest :
             rest \in UNION {[1..n -> UrlSyms] : n \in 0..(MaxUrlLen - 3)}}

\* the index of the first t in s, Len(s) + 1 if there is none
find(s, t) ==
    IF \E i \in 1..Len(s) : s[i] = t
    THEN CHOOSE i \in 1..Len(s) : s[i] = t /\ \A j \in 1..(i - 1) : s[j] # t
    ELSE Len(s) + 1

\* the segments of a path: the parts between the '/'
RECURSIVE split_path(_)
split_path(s) ==
    IF find(s, "/") > Len(s) THEN <<s>>
    ELSE <<SubSeq(s, 1, find(s, "/") - 1)>>
         \o split_path(SubSeq(s, find(s, "/") + 1, Len(s)))

\* the path state of the URL parser: "." is skipped and ".." removes the
\* segment before it; either, as the last segment, leaves an empty one
RECURSIVE remove_dot_segments(_, _)
remove_dot_segments(input, out) ==
    IF input = <<>> THEN out
    ELSE IF Head(input) = <<".">>
    THEN remove_dot_segments(Tail(input),
                             IF Len(input) = 1 THEN Append(out, <<>>) ELSE out)
    ELSE IF Head(input) = <<".", ".">>
    THEN remove_dot_segments(Tail(input),
                             (IF out = <<>> THEN out ELSE SubSeq(out, 1, Len(out) - 1))
                             \o (IF Len(input) = 1 THEN << <<>> >> ELSE <<>>))
    ELSE remove_dot_segments(Tail(input), Append(out, Head(input)))

\* Url::parse: the fragment follows the first '#', the query the first '?'
\* before it; the path of a special URL is split into segments and is "/"
\* when empty; a text without a scheme is a relative URL without a base
Url_parse(text) ==
    IF text = <<>> \/ Head(text) \notin UrlHeads THEN Err("RelativeUrlWithoutBase")
    ELSE LET rest == Tail(text)
             hash == find(rest, "#")
             before == SubSeq(rest, 1, hash - 1)
             qm == find(before, "?")
             path == SubSeq(before, 1, qm - 1)
             base == [origin |-> Head(text),
                      query |-> IF qm > Len(before) THEN None
                                ELSE [some |-> SubSeq(before, qm + 1, Len(before))],
                      fragment |-> IF hash > Len(rest) THEN None
                                   ELSE [some |-> SubSeq(rest, hash + 1, Len(rest))]]
         IN  IF Head(text) = "mailto:x"
             THEN Ok(base @@ [cannot_be_a_base |-> TRUE, segs |-> <<path>>])
             ELSE Ok(base @@ [cannot_be_a_base |-> FALSE,
                              segs |-> IF path = <<>> THEN << <<>> >>
                                       ELSE remove_dot_segments(split_path(Tail(path)),
                                                                <<>>)])

\* the path of a URL that can be a base: '/' before every segment
RECURSIVE path_str(_)
path_str(segs) ==
    IF segs = <<>> THEN <<>> ELSE <<"/">> \o Head(segs) \o path_str(Tail(segs))

\* Url::as_str: the serialization
as_str(url) ==
    <<url.origin>>
    \o (IF url.cannot_be_a_base THEN url.segs[1] ELSE path_str(url.segs))
    \o (IF url.query = None THEN <<>> ELSE <<"?">> \o url.query.some)
    \o (IF url.fragment = None THEN <<>> ELSE <<"#">> \o url.fragment.some)

\* Url::path_segments: None for a URL that cannot be a base
path_segments(url) == IF url.cannot_be_a_base THEN None ELSE [some |-> url.segs]

\* Iterator::next, the i-th time
nth(segments, i) == IF i <= Len(segments) THEN [some |-> segments[i]] ELSE None

\* a variant that appends '/' to every URL
add_backslash_always(url) == Url_parse(as_str(url) \o <<"/">>).val

add_backslash_if_necessary(url) ==
    IF as_str(url)[Len(as_str(url))] # "/"
    THEN Url_parse(as_str(url) \o <<"/">>).val
    ELSE url

\* a variant that does not look at what follows the project name
has_valid_path_segments_prefix(project_api_url_) ==
    /\ path_segments(project_api_url_) # None
    /\ nth(path_segments(project_api_url_).some, 1) = [some |-> <<"api">>]
    /\ nth(path_segments(project_api_url_).some, 2) \notin {None, [some |-> <<>>]}

has_valid_path_segments(project_api_url_) ==
    IF path_segments(project_api_url_) # None
    THEN LET segments == path_segments(project_api_url_).some
             api_literal == nth(segments, 1)
             proj_name == nth(segments, 2)
             blank == nth(segments, 3)
             should_be_none == nth(segments, 4)
         IN  IF proj_name = [some |-> <<>>] THEN FALSE
             ELSE IF /\ api_literal = [some |-> <<"api">>]
                     /\ proj_name # None
                     /\ blank = [some |-> <<>>]
                     /\ should_be_none = None
             THEN TRUE
             ELSE FALSE
    ELSE FALSE

\* the values of type Url
Urls == {Url_parse(t).val : t \in UrlTexts}

\* a URL with an origin and path segments, without query and fragment;
\* "/api/proj/" is << <<"api">>, <<"proj">>, <<>> >>
Url(origin, segs) ==
    [origin |-> origin, cannot_be_a_base |-> FALSE, segs |-> segs,
     query |-> None, fragment |-> None]

\* Url::set_path("/ui"): query and fragment stay
set_path_ui(url) == [url EXCEPT !.segs = << <<"ui">> >>]

\* Url::join(s) on a URL that can be a base: s replaces the last segment,
\* query and fragment go
append_to_url(url, s) == Url(url.origin, SubSeq(url.segs, 1, Len(url.segs) - 1) \o << <<s>> >>)

(***************************************************************************)
(* The pure parts of the handshake rounds (src/src/auth.rs)                *)
(***************************************************************************)
TransportError == [transport_ok |-> FALSE, fault |-> "transport"]

\* a variant that takes every number for a non-zero one
NonZeroU32_new_unchecked(n) == [some |-> n]

\* NonZeroU32::new
NonZeroU32_new(n) == IF n = U32_ZERO THEN None ELSE [some |-> n]

\* the HELLO request of auth_session_config
hello_request(url, username) ==
    [method |-> "GET", url |-> url,
     Authorization |-> HELLO_username \o base64_encode_no_padding(as_bytes(username))]

\* a variant that goes on with an empty handshake token and SHA-256 when
\* the www-authenticate header cannot be read
auth_session_config_defaulting(res) ==
    IF ~res.transport_ok THEN Err(InternalHttp)
    ELSE IF ~parse_key_value_pairs_from_header("www-authenticate", res).ok
    THEN Ok([handshake_token |-> <<>>, hash_fn |-> "Sha256"])
    ELSE LET \* the ? operator: k is the rest of the function
             try(r, k(_)) == IF r.ok THEN k(r.val) ELSE Err(Handshake(r.err)) IN
         try(parse_key_value_pairs_from_header("www-authenticate", res), LAMBDA kvps :
         try(KeyValuePairs_get(kvps, K_handshakeToken), LAMBDA handshake_token :
         try(KeyValuePairs_get(kvps, K_hash), LAMBDA hash :
         try(HashFunction_from_str(hash), LAMBDA hash_fn :
         Ok([handshake_token |-> handshake_token, hash_fn |-> hash_fn])))))

\* auth_session_config, from the response on
auth_session_config(res) ==
    IF ~res.transport_ok THEN Err(InternalHttp)
    ELSE LET \* the ? operator: k is the rest of the function
             try(r, k(_)) == IF r.ok THEN k(r.val) ELSE Err(Handshake(r.err)) IN
         try(parse_key_value_pairs_from_header("www-authenticate", res), LAMBDA kvps :
         try(KeyValuePairs_get(kvps, K_handshakeToken), LAMBDA handshake_token :
         try(KeyValuePairs_get(kvps, K_hash), LAMBDA hash :
         try(HashFunction_from_str(hash), LAMBDA hash_fn :
         Ok([handshake_token |-> handshake_token, hash_fn |-> hash_fn])))))

\* format!("n={},r={}", username, nonce)
client_first_msg_of(username, nonce) ==
    Str(<<"n", "=">>) \o username \o Str(<<",", "r", "=">>) \o nonce

\* a variant that sends one and the same handshake token in every attempt
scram_request_fixed_token(url, handshake_token, msg) ==
    [method |-> "GET", url |-> url,
     Authorization |-> SCRAM_handshakeToken \o Str(<<"k", "1">>) \o comma_data
                       \o base64_encode_no_padding(as_bytes(msg))]

\* the request of server_first_response and of server_second_response
scram_request(url, handshake_token, msg) ==
    [method |-> "GET", url |-> url,
     Authorization |-> SCRAM_handshakeToken \o handshake_token \o comma_data
                       \o base64_encode_no_padding(as_bytes(msg))]

\* server_first_response, from the response on
server_first_response(res) ==
    IF ~res.transport_ok THEN Err(InternalHttp)
    ELSE LET \* the ? operator: k is the rest of the function
             try(r, k(_)) == IF r.ok THEN k(r.val) ELSE Err(Handshake(r.err)) IN
         try(parse_key_value_pairs_from_header("www-authenticate", res), LAMBDA kvps :
         try(KeyValuePairs_get(kvps, K_data), LAMBDA data_base64 :
         try(base64_decode_no_padding(data_base64), LAMBDA data :
         try(parse_key_value_pairs(data), LAMBDA data_kvps :
         try(KeyValuePairs_get(data_kvps, K_r), LAMBDA server_nonce :
         try(KeyValuePairs_get(data_kvps, K_s), LAMBDA server_salt :
         try(KeyValuePairs_get(data_kvps, K_i), LAMBDA iter_str :
         try(parse_u32(iter_str), LAMBDA server_iterations :
         Ok([server_first_msg |-> data,
             server_iterations |-> server_iterations,
             server_nonce |-> server_nonce,
             server_salt |-> server_salt])))))))))

\* a variant that leaves the server-first message out of the auth message
auth_msg_without_server_first(client_first_msg, server_first_msg, client_final_no_proof) ==
    client_first_msg \o comma \o client_final_no_proof

\* format!("{},{},{}", client_first_msg, server_first_msg, client_final_no_proof)
auth_msg_of(client_first_msg, server_first_msg, client_final_no_proof) ==
    client_first_msg \o comma \o server_first_msg \o comma \o client_final_no_proof

\* a variant that sends the salted password itself as the proof
client_proof_of_unmasked(hash_fn, salted_password, auth_msg) == salted_password

\* a variant that signs the auth message with the client key itself, not
\* with its digest
client_proof_of_without_stored_key(hash_fn, salted_password, auth_msg) ==
    xor_zip(hmac_sign(hash_fn, salted_password, ClientKeyLit),
            hmac_sign(hash_fn, hmac_sign(hash_fn, salted_password, ClientKeyLit),
                      as_bytes(auth_msg)))

\* the client proof and the client-final message of server_second_response
client_proof_of(hash_fn, salted_password, auth_msg) ==
    LET client_key == hmac_sign(hash_fn, salted_password, ClientKeyLit)
        stored_key == digest(hash_fn, client_key)
        client_signature == hmac_sign(hash_fn, stored_key, as_bytes(auth_msg))
    IN xor_zip(client_key, client_signature)

client_final_of(client_final_no_proof, client_proof) ==
    client_final_no_proof \o Str(<<",", "p", "=">>) \o base64_encode_no_padding(client_proof)

\* server_second_response, from the response on
server_second_response(res) ==
    IF ~res.transport_ok THEN Err(InternalHttp)
    ELSE LET \* the ? operator: k is the rest of the function
             try(r, k(_)) == IF r.ok THEN k(r.val) ELSE Err(Handshake(r.err)) IN
         try(parse_key_value_pairs_from_header("authentication-info", res), LAMBDA auth_info :
         try(KeyValuePairs_get(auth_info, K_authToken), LAMBDA auth_token_r :
         try(KeyValuePairs_get(auth_info, K_data), LAMBDA data_base64 :
         try(base64_decode_no_padding(data_base64), LAMBDA data :
         try(parse_key_value_pairs(data), LAMBDA data_kvps :
         try(KeyValuePairs_get(data_kvps, K_v), LAMBDA server_signature :
         Ok([auth_token |-> auth_token_r, server_signature |-> server_signature])))))))

\* a variant that accepts every server signature
is_server_valid_unchecked(auth_msg, salted_password, server_signature, hash_fn) == TRUE

\* is_server_valid
is_server_valid(auth_msg, salted_password, server_signature, hash_fn) ==
    LET computed_server_key == hmac_sign(hash_fn, salted_password, ServerKeyLit)
        computed_server_signature ==
            base64_encode(hmac_sign(hash_fn, computed_server_key, as_bytes(auth_msg)))
    IN computed_server_signature = server_signature

(***************************************************************************)
(* Bounds of the model                                                     *)
(***************************************************************************)
NumTokens == 2

NumHandshakeTokens == 2

NumNonces == 2

\* the number of successful handshakes that is counted
MaxRefreshes == 2

\* the number of fragments of an input of parse_key_value_pairs
MaxFragments == 3

(***************************************************************************)
(* The server and the transport: the responses a round trip can produce.   *)
(* Every handshake response carries a label, fault, that names what is     *)
(* wrong with it; the client never reads it.                               *)
(***************************************************************************)
Tokens == {Str(<<"t", HexDigits[k + 1]>>) : k \in 1..NumTokens}

HandshakeTokens == {Str(<<"k", HexDigits[k + 1]>>) : k \in 1..NumHandshakeTokens}

\* the outcomes of rng.fill on a buffer of nonce_len bytes
RngOutcomes ==
    {Err("unspecified")} \cup
    {Ok([i \in 1..nonce_len |-> (k * 165) % 256]) : k \in 1..NumNonces}

HsResponse(www, info, fault) ==
    [transport_ok |-> TRUE,
     headers |-> ("www-authenticate" :> www) @@ ("authentication-info" :> info),
     fault |-> fault]

Www1(ht, hash_name) ==
    HeaderText(SCRAM_handshakeToken \o ht \o Str(<<",", " ">>) \o K_hash \o <<EQ>> \o hash_name)

MD5 == Str(<<"M", "D", "5">>)

Garbage == Str(<<"g", "a", "r", "b", "a", "g", "e">>)

NotBase64 == Str(<<"!">>)

HelloResponses ==
    {TransportError}
    \cup {HsResponse(Www1(ht, SHA_256), HeaderAbsent, "none")
              @@ [hash_fn |-> "Sha256", ht |-> ht] : ht \in HandshakeTokens}
    \cup {HsResponse(Www1(ht, SHA_512), HeaderAbsent, "none")
              @@ [hash_fn |-> "Sha512", ht |-> ht] : ht \in HandshakeTokens}
    \cup {HsResponse(Www1(ht, MD5), HeaderAbsent, "unknown hash") : ht \in HandshakeTokens}
    \cup {HsResponse(HeaderAbsent, HeaderAbsent, "header absent"),
          HsResponse(HeaderNotStr, HeaderAbsent, "header malformed"),
          HsResponse(HeaderText(K_hash \o <<EQ>> \o SHA_256), HeaderAbsent, "missing key"),
          HsResponse(HeaderText(Garbage), HeaderAbsent, "other")}

\* what the server reads in a SCRAM request: the handshake token and the message
srv_read(req) ==
    LET kv == parse_key_value_pairs(req.Authorization).val IN
    [handshake_token |-> KeyValuePairs_get(kv, K_handshakeToken).val,
     msg |-> base64_decode_no_padding(KeyValuePairs_get(kv, K_data).val).val]

SaltBytes == [lit |-> "salt", len |-> 4]

Iter4096 == Str(<<"4", "0", "9", "6">>)

server_first_of(server_nonce, salt_b64, iter) ==
    K_r \o <<EQ>> \o server_nonce \o comma \o K_s \o <<EQ>> \o salt_b64
        \o comma \o K_i \o <<EQ>> \o iter

Www2(ht, data) == HeaderText(SCRAM_handshakeToken \o ht \o comma_data \o data)

\* The responses to the client-first request req.  sf is what a conforming
\* server remembers of its own message.
ServerFirstResponses(req) ==
    LET rd == srv_read(req)
        client_nonce == KeyValuePairs_get(parse_key_value_pairs(rd.msg).val, K_r).val
        server_nonce == client_nonce \o Str(<<"x">>)
        good_salt == base64_encode_no_padding(SaltBytes)
        sf(salt, iter) == server_first_of(server_nonce, salt, iter)
        resp(text, fault) ==
            HsResponse(Www2(rd.handshake_token, base64_encode_no_padding(as_bytes(text))),
                       HeaderAbsent, fault)
        memo == [client_first |-> rd.msg, server_first |-> sf(good_salt, Iter4096),
                 server_nonce |-> server_nonce, salt |-> SaltBytes, iterations |-> <<4, 0, 9, 6>>]
    IN {TransportError}
       \cup {resp(sf(good_salt, Iter4096), "none") @@ [sf |-> memo]}
       \cup {resp(sf(good_salt, Str(<<"0">>)), "zero iterations"),
             resp(sf(good_salt, Str(<<"x">>)), "iterations"),
             resp(sf(NotBase64, Iter4096), "base64"),
             resp(K_r \o <<EQ>> \o server_nonce \o comma \o K_s \o <<EQ>> \o good_salt,
                  "missing key"),
             HsResponse(HeaderAbsent, HeaderAbsent, "header absent"),
             HsResponse(HeaderText(SCRAM_handshakeToken \o rd.handshake_token),
                        HeaderAbsent, "missing key"),
             HsResponse(Www2(rd.handshake_token, NotBase64), HeaderAbsent, "base64"),
             HsResponse(Www2(rd.handshake_token,
                             base64_encode_no_padding([raw |-> "not utf-8", len |-> 2])),
                        HeaderAbsent, "utf8")}

Info3(tok, data) == HeaderText(K_authToken \o <<EQ>> \o tok \o comma_data \o data)

\* the signature a conforming server computes for the stored password pw
server_signature_of(hash_fn, pw, memo) ==
    LET salted == pbkdf2(hash_fn, as_bytes(pw), memo.salt, memo.iterations)
        auth_msg == memo.client_first \o comma \o memo.server_first \o comma
                    \o c_biws_r \o memo.server_nonce
    IN hmac_sign(hash_fn, hmac_sign(hash_fn, salted, ServerKeyLit), as_bytes(auth_msg))

WrongPassword == Str(<<"w", "r", "o", "n", "g">>)

\* The responses to the client-final request.  A conforming server sends
\* authToken and v, the base64 of its signature; "none" marks the responses
\* of a conforming server, with v padded or not.
ServerSecondResponses(hash_fn, pw, memo) ==
    IF memo = None THEN {TransportError}
    ELSE
    LET sig == server_signature_of(hash_fn, pw, memo)
        bad_sig == server_signature_of(hash_fn, WrongPassword, memo)
        final(v) == base64_encode_no_padding(as_bytes(K_v \o <<EQ>> \o v))
        resp(tok, v, fault) == HsResponse(HeaderAbsent, Info3(tok, final(v)), fault)
    IN {TransportError}
       \cup {resp(tok, base64_encode(sig), "none") : tok \in Tokens}
       \cup {resp(tok, base64_encode_no_padding(sig), "none") : tok \in Tokens}
       \cup {resp(tok, base64_encode(bad_sig), "signature") : tok \in Tokens}
       \cup {HsResponse(HeaderAbsent, HeaderAbsent, "header absent"),
             HsResponse(HeaderAbsent, HeaderText(comma_data \o final(base64_encode(sig))),
                        "missing key"),
             HsResponse(HeaderAbsent,
                        HeaderText(K_authToken \o <<EQ>> \o Str(<<"t", "1">>) \o comma_data
                                   \o NotBase64), "base64"),
             HsResponse(HeaderAbsent,
                        Info3(Str(<<"t", "1">>), base64_encode_no_padding(as_bytes(Garbage))),
                        "other")}

\* JSON documents a response body can hold
GridJson(m, cols_, rows_) ==
    JObject([meta |-> m, cols |-> JArray(cols_), rows |-> JArray(rows_)])

Col(name) == JObject([name |-> JString(name)])

Row1 == JObject([id |-> JString("r:1")])

MetaPlain == JObject([ver |-> JString("3.0")])

MetaErr == JObject([ver |-> JString("3.0"), err |-> JString(MARKER_LITERAL),
                    errTrace |-> JString("s:trace")])

Bodies ==
    {Err("not JSON"),
     Ok(JString("hello")),
     Ok(GridJson(MetaPlain, <<Col("id")>>, <<Row1>>)),
     Ok(GridJson(MetaPlain, <<>>, <<>>)),
     Ok(GridJson(MetaErr, <<>>, <<>>)),
     Ok(GridJson(JObject([ver |-> JString("3.0"), err |-> JString("x")]), <<>>, <<>>)),
     Ok(GridJson(JObject([ver |-> JString("3.0"), err |-> JBool(TRUE)]), <<>>, <<>>)),
     Ok(GridJson(JString("meta"), <<>>, <<>>)),
     Ok(JObject([cols |-> JArray(<<>>), rows |-> JArray(<<>>)])),
     Ok(JObject([meta |-> MetaErr, cols |-> JString("c"), rows |-> JArray(<<>>)])),
     Ok(JObject([meta |-> MetaErr, cols |-> JArray(<<>>)])),
     Ok(GridJson(MetaErr, <<JString("c")>>, <<>>)),
     Ok(GridJson(MetaPlain, <<Col("id")>>, <<Row1, JNull>>))}

FORBIDDEN == 403

Statuses == {200, 401, FORBIDDEN, 500}

ApiResponses ==
    {TransportError} \cup
    {[transport_ok |-> TRUE, status |-> st, body |-> b] : st \in Statuses, b \in Bodies}

(***************************************************************************)
(* State                                                                   *)
(***************************************************************************)
VARIABLES
    auth_token,       \* SkySparkClient.auth_token
    username,         \* SkySparkClient.username
    password,         \* SkySparkClient.password
    project_api_url,  \* SkySparkClient.project_api_url
    pc,               \* where the call in progress is suspended
    call,             \* the arguments of the get or post in progress
    result,           \* what the last call returned
    hs,               \* the local variables of new_auth_token
    srv,              \* what the server remembers of the handshake
    api_sent,         \* history: the API requests sent by the call
    hs_sent,          \* history: the handshake requests sent by the call
    hs_runs,          \* history: the handshakes started by the call
    hs_result,        \* history: what new_auth_token returned to the call
    hs_last,          \* history: the values is_server_valid was applied to
    faults,           \* history: the labels of the handshake responses
    first_res,        \* history: the first response of the call
    retry_res,        \* history: the response to the retry of the call
    last_body,        \* history: the body given to http_response_to_grid
    prev_failure,     \* history: cause and kind of the previous failed handshake
    rng_out,          \* history: the outcome of rng.fill in the call
    valid_tokens,     \* history: the token of construction and those of all
                      \* handshakes that passed is_server_valid
    refreshes,        \* history: how many handshakes passed, up to MaxRefreshes
    ev,               \* the local variables of the standalone eval
    fn_arg,           \* the input a function under test is applied to
    fn_ret            \* what the function under test returned

vars == <<auth_token, username, password, project_api_url, pc, call, result, hs,
          srv, api_sent, hs_sent, hs_runs, hs_result, hs_last, faults, first_res,
          retry_res, last_body, prev_failure, rng_out, valid_tokens, refreshes, ev,
          fn_arg, fn_ret>>

client_fields == <<username, password, project_api_url>>

fn_vars == <<fn_arg, fn_ret>>

call_vars == <<auth_token, username, password, project_api_url, pc, call, result, hs,
               srv, api_sent, hs_sent, hs_runs, hs_result, hs_last, faults, first_res,
               retry_res, last_body, prev_failure, rng_out, valid_tokens, refreshes, ev>>

token_hist == <<valid_tokens, refreshes>>

Usernames == {Str(<<"u", "s", "e", "r">>)}

Passwords == {Str(<<"p", "4", "s", "s">>)}

ProjectApiUrl == Url("http://www.test.com", << <<"api">>, <<"proj">>, <<>> >>)

AxonExprs == {"readAll(site)"}

\* the state after SkySparkClient::new_with_client has returned Ok
Constructed ==
    /\ auth_token \in Tokens
    /\ username \in Usernames
    /\ password \in Passwords
    /\ project_api_url = ProjectApiUrl
    /\ pc = "idle"
    /\ call = None
    /\ result = None
    /\ hs = None
    /\ srv = None
    /\ api_sent = <<>>
    /\ hs_sent = <<>>
    /\ hs_runs = 0
    /\ hs_result = None
    /\ hs_last = None
    /\ faults = <<>>
    /\ first_res = None
    /\ retry_res = None
    /\ last_body = None
    /\ prev_failure = None
    /\ rng_out = None
    /\ valid_tokens = {auth_token}
    /\ refreshes = 0
    /\ ev = None

\* a client, and no function under test
Init ==
    /\ Constructed
    /\ fn_arg = None
    /\ fn_ret = None

(***************************************************************************)
(* The Session Guard (src/src/lib.rs, src/src/blocking.rs)                 *)
(***************************************************************************)
\* SkySparkClient::auth_header_value
auth_header_value(token) == BEARER_authToken \o token

\* the request built by SkySparkClient::get_response
get_response(token, url) ==
    [method |-> "GET", url |-> url,
     headers |-> [Accept |-> "application/json",
                  Authorization |-> auth_header_value(token)],
     body |-> None]

\* Grid::to_json_string
to_json_string(grid) == grid.json

\* the request built by SkySparkClient::post_response
post_response(token, url, grid) ==
    [method |-> "POST", url |-> url,
     headers |-> [Accept |-> "application/json",
                  Authorization |-> auth_header_value(token),
                  ContentType |-> "application/json"],
     body |-> to_json_string(grid)]

\* a variant that also takes 401 Unauthorized for an expired token
is_forbidden_or_unauthorized(res) == res.status \in {401, FORBIDDEN}

\* res.status() == reqwest::StatusCode::FORBIDDEN
is_forbidden(res) == res.status = FORBIDDEN

\* a variant that drops the stored token when the handshake fails
update_auth_token_clearing(old_token, r) == IF r.ok THEN r.val ELSE <<>>

\* a variant that writes the new token after the old one instead of over it
update_auth_token_appending(old_token, r) == IF r.ok THEN old_token \o r.val ELSE old_token

\* a variant that never stores the new token
update_auth_token_stale(old_token, r) == old_token

\* SkySparkClient::update_auth_token: the value of auth_token after it,
\* given the result r of new_auth_token
update_auth_token(old_token, r) == IF r.ok THEN r.val ELSE old_token

\* the request of the call c, built with the token
request_of(token, c) ==
    IF c.method = "GET" THEN get_response(token, c.url)
    ELSE post_response(token, c.url, c.grid)

\* a variant whose retry is always built by get_response
retry_request_as_get(token, c) == get_response(token, c.url)

\* the retry of get and of post: the same call, sent again
retry_request(token, c) == request_of(token, c)

\* cause and kind of a failed handshake
failure_of(r, fs) ==
    [cause |-> IF fs = <<>> THEN "none" ELSE fs[Len(fs)],
     kind |-> IF r.err.variant = "Handshake" THEN r.err.err.kind ELSE r.err.variant]

(***************************************************************************)
(* The blocking client (src/src/blocking.rs).  A call does not suspend: it *)
(* is a function of the token held, the response to the first request, the *)
(* outcome hs of crate::auth::new_auth_token and the response to the       *)
(* retry.  It yields the requests sent, the token held after the call and  *)
(* the result.                                                             *)
(***************************************************************************)
\* blocking::SkySparkClient::auth_header_value
blocking_auth_header_value(token) ==
    Str(<<"B", "E", "A", "R", "E", "R", " ", "a", "u", "t", "h", "T", "o", "k", "e", "n", "=">>)
        \o token

\* the request built by blocking::SkySparkClient::get_response
blocking_get_response(token, url) ==
    [method |-> "GET", url |-> url,
     headers |-> [Accept |-> "application/json",
                  Authorization |-> blocking_auth_header_value(token)],
     body |-> None]

\* the request built by blocking::SkySparkClient::post_response
blocking_post_response(token, url, grid) ==
    [method |-> "POST", url |-> url,
     headers |-> [Accept |-> "application/json",
                  Authorization |-> blocking_auth_header_value(token),
                  ContentType |-> "application/json"],
     body |-> to_json_string(grid)]

\* http_response_to_grid of blocking.rs
blocking_http_response_to_grid(res) ==
    IF ~res.body.ok THEN Err(ErrorHttp)
    ELSE IF ~Grid_try_from(res.body.val).ok THEN Grid_try_from(res.body.val)
    ELSE IF is_error(Grid_try_from(res.body.val).val)
    THEN Err(ErrorGrid(Grid_try_from(res.body.val).val))
    ELSE Ok(Grid_try_from(res.body.val).val)

\* blocking::new_auth_token: block_on(crate::auth::new_auth_token(..))?
blocking_new_auth_token(hs_outcome) ==
    IF hs_outcome.ok THEN Ok(hs_outcome.val) ELSE Err(AuthError_from(hs_outcome.err))

\* a variant of update_auth_token that keeps the token held
blocking_update_auth_token_stale(old_token, r) == old_token

\* blocking::SkySparkClient::update_auth_token: the token held after it
blocking_update_auth_token(old_token, r) == IF r.ok THEN r.val ELSE old_token

\* the request of a blocking call c, built with the token
blocking_request_of(token, c) ==
    IF c.method = "GET" THEN blocking_get_response(token, c.url)
    ELSE blocking_post_response(token, c.url, c.grid)

\* blocking::SkySparkClient::get and ::post
blocking_call(token, c, first, hs_outcome, retry) ==
    IF ~first.transport_ok
    THEN [sent |-> <<blocking_request_of(token, c)>>, auth_token |-> token,
          result |-> Err(ErrorHttp)]
    ELSE IF first.status = FORBIDDEN
    THEN IF ~blocking_new_auth_token(hs_outcome).ok
         THEN [sent |-> <<blocking_request_of(token, c)>>,
               auth_token |-> blocking_update_auth_token(token,
                                  blocking_new_auth_token(hs_outcome)),
               result |-> Err(UpdateAuthToken(blocking_new_auth_token(hs_outcome).err))]
         ELSE [sent |-> <<blocking_request_of(token, c),
                          blocking_request_of(
                              blocking_update_auth_token(token,
                                  blocking_new_auth_token(hs_outcome)), c)>>,
               auth_token |-> blocking_update_auth_token(token,
                                  blocking_new_auth_token(hs_outcome)),
               result |-> IF ~retry.transport_ok THEN Err(ErrorHttp)
                          ELSE blocking_http_response_to_grid(retry)]
    ELSE [sent |-> <<blocking_request_of(token, c)>>, auth_token |-> token,
          result |-> blocking_http_response_to_grid(first)]

\* blocking::SkySparkClient::append_to_url: Url::join on the project URL
blocking_append_to_url(url, s) ==
    [origin |-> url.origin, cannot_be_a_base |-> FALSE,
     segs |-> SubSeq(url.segs, 1, Len(url.segs) - 1) \o << <<s>> >>,
     query |-> None, fragment |-> None]

\* blocking::SkySparkClient::about
blocking_about(token, url, first, hs_outcome, retry) ==
    blocking_call(token, [method |-> "GET", url |-> blocking_append_to_url(url, "about"),
                          grid |-> None], first, hs_outcome, retry)

\* blocking::SkySparkClient::eval
blocking_eval(token, url, axon_expr, first, hs_outcome, retry) ==
    blocking_call(token, [method |-> "POST", url |-> blocking_append_to_url(url, "eval"),
                          grid |-> Grid_new(<<JObject([expr |-> JString(axon_expr)])>>).val],
                  first, hs_outcome, retry)

\* the auth URL of blocking::new_auth_token: set_path("/ui")
blocking_auth_url(url) == [url EXCEPT !.segs = << <<"ui">> >>]

\* a variant of get and post that borrows the client immutably (&self): a
\* call may begin while another one is in flight
BeginCall_shared_borrow(c, track) ==
    /\ pc # "panicked"
    /\ pc' = "first"
    /\ call' = c
    /\ api_sent' = <<request_of(auth_token, c)>>
    /\ result' = None
    /\ hs_sent' = <<>>
    /\ hs_runs' = 0
    /\ hs_result' = None
    /\ hs_last' = None
    /\ faults' = <<>>
    /\ first_res' = None
    /\ retry_res' = None
    /\ last_body' = None
    /\ prev_failure' = prev_failure
    /\ rng_out' = None
    /\ ev' = None
    /\ hs' = None
    /\ srv' = None
    /\ UNCHANGED <<auth_token, client_fields, fn_vars, token_hist>>

\* a call begins: the history of the call before it is dropped; track says
\* whether the failure of the handshake of that call is remembered
BeginCall(c, track) ==
    /\ pc = "idle"
    /\ pc' = "first"
    /\ call' = c
    /\ api_sent' = <<request_of(auth_token, c)>>
    /\ result' = None
    /\ hs_sent' = <<>>
    /\ hs_runs' = 0
    /\ hs_result' = None
    /\ hs_last' = None
    /\ faults' = <<>>
    /\ first_res' = None
    /\ retry_res' = None
    /\ last_body' = None
    /\ prev_failure' = IF track /\ hs_result # None /\ ~hs_result.ok
                       THEN failure_of(hs_result, faults) ELSE prev_failure
    /\ rng_out' = None
    /\ ev' = None
    /\ UNCHANGED <<auth_token, client_fields, fn_vars, hs, srv, token_hist>>

\* SkySparkClient::get, up to the first response
get(url) == BeginCall([method |-> "GET", url |-> url, grid |-> None], FALSE)

\* SkySparkClient::post, up to the first response
post(url, grid) == BeginCall([method |-> "POST", url |-> url, grid |-> grid], FALSE)

\* SkySparkClient::about
about == get(append_to_url(project_api_url, "about"))

\* SkySparkClient::ops, with the failure of the last handshake remembered
ops == BeginCall([method |-> "GET", url |-> append_to_url(project_api_url, "ops"),
                  grid |-> None], TRUE)

\* Grid::new_internal(vec![row])
new_internal(rows_) == Grid_new(rows_).val

\* SkySparkClient::eval
eval(axon_expr) ==
    post(append_to_url(project_api_url, "eval"),
         new_internal(<<JObject([expr |-> JString(axon_expr)])>>))

\* the call returns r
Return(r) ==
    /\ result' = r
    /\ pc' = "idle"
    /\ hs' = None
    /\ srv' = None

\* impl From<crate::Error> for EvalError: every variant but UpdateAuthToken
\* keeps its name and what it carries; UpdateAuthToken reaches unreachable!()
Unreachable == [kind |-> "unreachable!()"]

EvalError_from(error) ==
    CASE error.kind = "Grid" -> [kind |-> "Grid", err_grid |-> error.err_grid]
      [] error.kind = "Http" -> [kind |-> "Http"]
      [] error.kind = "ParseJsonGrid" -> [kind |-> "ParseJsonGrid", msg |-> error.msg]
      [] error.kind = "TimeZone" -> [kind |-> "TimeZone", err_time_zone |-> error.err_time_zone]
      [] error.kind = "UpdateAuthToken" -> Unreachable

\* a variant in which a handshake failure is first wrapped as crate::Error
EvalError_Auth_through_crate_error(auth_err) == EvalError_from(UpdateAuthToken(auth_err))

\* EvalError::Auth, #[from] crate::auth::AuthError
EvalError_Auth(auth_err) == [kind |-> "Auth", err |-> auth_err]

\* EvalError::Http, #[from] reqwest::Error
EvalError_Http == [kind |-> "Http"]

\* EvalError::UrlParse, #[from] url::ParseError
EvalError_UrlParse(e) == [kind |-> "UrlParse", err |-> e]

EvalError_UrlFormat(msg) == [kind |-> "UrlFormat", msg |-> msg]

\* NewSkySparkClientError::url(msg), and the error new_auth_token(..).await?
\* makes of an AuthError
NewSkySparkClientError_url(msg) == [kind |-> "Url", msg |-> msg]

NewSkySparkClientError_Auth(auth_err) == [kind |-> "Auth", err |-> auth_err]

\* a variant that accepts every URL
validated_unchecked(project_api_url_) ==
    Ok(add_backslash_if_necessary(project_api_url_))

\* the validation new_with_client and the standalone eval begin with:
\* the URL with its trailing '/', or the message of the URL error
validated(project_api_url_) ==
    IF add_backslash_if_necessary(project_api_url_).cannot_be_a_base
    THEN Err("the project API URL must be a valid base URL")
    ELSE IF ~has_valid_path_segments(add_backslash_if_necessary(project_api_url_))
    THEN Err("URL must be formatted similarly to http://www.test.com/api/project/")
    ELSE Ok(add_backslash_if_necessary(project_api_url_))

\* eval.rs:33-44: the text is parsed, then validated
eval_project_api_url(text) ==
    IF ~Url_parse(text).ok THEN Err(EvalError_UrlParse(Url_parse(text).err))
    ELSE IF ~validated(Url_parse(text).val).ok
    THEN Err(EvalError_UrlFormat(validated(Url_parse(text).val).err))
    ELSE validated(Url_parse(text).val)

\* a variant that never reports the new token
EvalOutput_new_without_token(grid, new_auth_token) ==
    IF grid.ok THEN Ok([grid |-> grid.val, new_auth_token |-> None])
    ELSE Err(grid.err)

\* EvalOutput::new on the grid of http_response_to_grid(..).map_err(into)
EvalOutput_new(grid, new_auth_token) ==
    IF grid.ok THEN Ok([grid |-> grid.val, new_auth_token |-> new_auth_token])
    ELSE Err(EvalError_from(grid.err))

\* the closure req_with_token of the standalone eval
req_with_token(token, c) == post_response(token, c.url, c.grid)

\* the status of a response, without the body
summary(res) ==
    IF res.transport_ok THEN [transport_ok |-> TRUE, status |-> res.status]
    ELSE [transport_ok |-> FALSE]

\* new_auth_token of lib.rs: the URL the handshake is run against
auth_url == set_path_ui(project_api_url)

\* get and post, from the first response to the next suspension: on 403,
\* update_auth_token begins and auth_session_config sends HELLO
FirstResponse(res) ==
    /\ pc = "first"
    /\ ev = None
    /\ first_res' = summary(res)
    /\ UNCHANGED <<auth_token, client_fields, fn_vars, call, api_sent, hs_result, hs_last,
                   faults, retry_res, prev_failure, rng_out, token_hist, ev>>
    /\ IF ~res.transport_ok
       THEN /\ Return(Err(ErrorHttp))
            /\ UNCHANGED <<hs_sent, hs_runs, last_body>>
       ELSE IF is_forbidden(res)
       THEN /\ pc' = "hello"
            /\ hs_runs' = hs_runs + 1
            /\ hs_sent' = Append(hs_sent, hello_request(auth_url, username))
            /\ UNCHANGED <<result, hs, srv, last_body>>
       ELSE /\ Return(http_response_to_grid(res))
            /\ last_body' = res.body
            /\ UNCHANGED <<hs_sent, hs_runs>>

\* new_auth_token fails with e: update_auth_token and the call return it
HandshakeFails(e) ==
    /\ hs_result' = Err(e)
    /\ UNCHANGED <<api_sent, hs_sent, token_hist, ev>>
    /\ IF ev = None
       THEN /\ Return(Err(UpdateAuthToken(AuthError_from(e))))
            /\ auth_token' = update_auth_token(auth_token, Err(e))
       ELSE IF "arg" \in DOMAIN ev
       THEN \* the standalone eval: new_auth_token(..).await?
            /\ Return(Err(EvalError_Auth(AuthError_from(e))))
            /\ UNCHANGED auth_token
       ELSE \* new_with_client: new_auth_token(..).await?
            /\ Return(Err(NewSkySparkClientError_Auth(AuthError_from(e))))
            /\ UNCHANGED auth_token

\* new_auth_token returns Ok(token).  In get and post, update_auth_token
\* stores the token and the call sends the retry; the standalone eval
\* sends its first request, or its retry, with the token.
HandshakeSucceeds(token) ==
    /\ hs_result' = Ok(token)
    /\ valid_tokens' = valid_tokens \cup {token}
    /\ refreshes' = Min(refreshes + 1, MaxRefreshes)
    /\ hs' = None
    /\ srv' = None
    /\ UNCHANGED hs_sent
    /\ IF ev = None
       THEN /\ auth_token' = update_auth_token(auth_token, Ok(token))
            /\ api_sent' = Append(api_sent, retry_request(auth_token', call))
            /\ pc' = "retry"
            /\ UNCHANGED <<ev, result>>
       ELSE IF "arg" \in DOMAIN ev
       THEN /\ ev' = [ev EXCEPT !.auth_token = token]
            /\ api_sent' = Append(api_sent, req_with_token(token, call))
            /\ pc' = IF api_sent = <<>> THEN "first" ELSE "retry"
            /\ UNCHANGED <<auth_token, result>>
       ELSE \* new_with_client returns Ok(SkySparkClient { auth_token, .. })
            /\ auth_token' = token
            /\ result' = Ok("SkySparkClient")
            /\ pc' = "idle"
            /\ UNCHANGED <<ev, api_sent>>

\* auth_session_config from its response on, then new_auth_token up to the
\* request of server_first_response
HelloResponse(res, rnd) ==
    /\ pc = "hello"
    /\ faults' = Append(faults, res.fault)
    /\ UNCHANGED <<client_fields, fn_vars, call, hs_runs, hs_last, first_res, retry_res,
                   last_body, prev_failure>>
    /\ rng_out' = IF auth_session_config(res).ok THEN rnd ELSE rng_out
    /\ \E cfg \in {auth_session_config(res)}, nonce \in {generate_nonce(rnd)} :
          IF ~cfg.ok THEN HandshakeFails(cfg.err)
          ELSE IF ~nonce.ok THEN HandshakeFails(Handshake(nonce.err))
          ELSE \E client_first_msg \in {client_first_msg_of(username, nonce.val)} :
               /\ pc' = "server_first"
               /\ hs' = [handshake_token |-> cfg.val.handshake_token,
                         hash_fn |-> cfg.val.hash_fn,
                         nonce |-> nonce.val,
                         client_first_msg |-> client_first_msg]
               /\ hs_sent' = Append(hs_sent,
                      scram_request(auth_url, cfg.val.handshake_token, client_first_msg))
               /\ srv' = [hash_fn |-> IF "hash_fn" \in DOMAIN res THEN res.hash_fn
                                       ELSE "unknown",
                         handshake_token |-> IF "ht" \in DOMAIN res THEN res.ht ELSE None,
                         memo |-> None]
               /\ UNCHANGED <<auth_token, result, api_sent, hs_result, token_hist, ev>>

\* server_first_response from its response on, then new_auth_token up to
\* the request of server_second_response
ServerFirstResponse(res) ==
    /\ pc = "server_first"
    /\ faults' = Append(faults, res.fault)
    /\ UNCHANGED <<client_fields, fn_vars, call, hs_runs, hs_last, first_res, retry_res,
                   last_body, prev_failure, rng_out>>
    /\ \E sfr \in {server_first_response(res)} :
       IF ~sfr.ok THEN HandshakeFails(sfr.err)
       ELSE IF NonZeroU32_new(sfr.val.server_iterations) = None
       THEN \* NonZeroU32::new(0).expect(..) panics
            /\ pc' = "panicked"
            /\ UNCHANGED <<auth_token, result, hs, srv, api_sent, hs_sent, hs_result,
                           token_hist, ev>>
       ELSE \E decoded_server_salt \in {base64_decode(sfr.val.server_salt)} :
       IF ~decoded_server_salt.ok
       THEN HandshakeFails(Handshake(Base64DecodeError("invalid base64")))
       ELSE LET salted_password ==
                    pbkdf2(hs.hash_fn, as_bytes(password), decoded_server_salt.val,
                           sfr.val.server_iterations)
                client_final_no_proof == c_biws_r \o sfr.val.server_nonce
                auth_msg == auth_msg_of(hs.client_first_msg, sfr.val.server_first_msg,
                                        client_final_no_proof)
                client_final ==
                    client_final_of(client_final_no_proof,
                                    client_proof_of(hs.hash_fn, salted_password, auth_msg))
            IN /\ pc' = "server_second"
               /\ hs' = hs @@ [server_first_msg |-> sfr.val.server_first_msg,
                               server_iterations |-> sfr.val.server_iterations,
                               server_nonce |-> sfr.val.server_nonce,
                               server_salt |-> sfr.val.server_salt,
                               salted_password |-> salted_password,
                               client_final_no_proof |-> client_final_no_proof,
                               auth_msg |-> auth_msg]
               /\ hs_sent' = Append(hs_sent,
                                    scram_request(auth_url, hs.handshake_token, client_final))
               /\ srv' = [srv EXCEPT !.memo = IF "sf" \in DOMAIN res THEN res.sf ELSE None]
               /\ UNCHANGED <<auth_token, result, api_sent, hs_result, token_hist, ev>>

\* server_second_response from its response on and the end of
\* new_auth_token; on Ok, update_auth_token stores the token and the call
\* sends the retry
ServerSecondResponse(res) ==
    /\ pc = "server_second"
    /\ faults' = Append(faults, res.fault)
    /\ UNCHANGED <<client_fields, fn_vars, call, hs_runs, first_res, retry_res, last_body,
                   prev_failure, rng_out>>
    /\ \E ssr \in {server_second_response(res)} :
       IF ~ssr.ok
       THEN /\ HandshakeFails(ssr.err)
            /\ hs_last' = None
       ELSE /\ hs_last' = [auth_msg |-> hs.auth_msg,
                           salted_password |-> hs.salted_password,
                           hash_fn |-> hs.hash_fn,
                           server_signature |-> ssr.val.server_signature,
                           auth_token |-> ssr.val.auth_token,
                           srv_hash_fn |-> srv.hash_fn,
                           memo |-> srv.memo]
            /\ IF is_server_valid(hs.auth_msg, hs.salted_password,
                                  ssr.val.server_signature, hs.hash_fn)
               THEN HandshakeSucceeds(ssr.val.auth_token)
               ELSE HandshakeFails(ServerValidation(auth_url))

\* a variant of the retry in which a 403 on the retry starts the handshake
\* again
RetryResponse_looping(res) ==
    /\ pc = "retry"
    /\ ev = None
    /\ retry_res' = summary(res)
    /\ UNCHANGED <<auth_token, client_fields, fn_vars, call, api_sent, hs_result, hs_last,
                   faults, first_res, prev_failure, rng_out, token_hist, ev>>
    /\ IF ~res.transport_ok
       THEN /\ Return(Err(ErrorHttp))
            /\ UNCHANGED <<hs_sent, hs_runs, last_body>>
       ELSE IF is_forbidden(res) /\ hs_runs < 3
       THEN /\ pc' = "hello"
            /\ hs_runs' = hs_runs + 1
            /\ hs_sent' = Append(hs_sent, hello_request(auth_url, username))
            /\ UNCHANGED <<result, hs, srv, last_body>>
       ELSE /\ Return(http_response_to_grid(res))
            /\ last_body' = res.body
            /\ UNCHANGED <<hs_sent, hs_runs>>

\* get and post, from the response to the retry on
RetryResponse(res) ==
    /\ pc = "retry"
    /\ ev = None
    /\ retry_res' = summary(res)
    /\ UNCHANGED <<auth_token, client_fields, fn_vars, call, api_sent, hs_sent, hs_runs,
                   hs_result, hs_last, faults, first_res, prev_failure, rng_out,
                   token_hist, ev>>
    /\ IF ~res.transport_ok
       THEN /\ Return(Err(ErrorHttp))
            /\ UNCHANGED last_body
       ELSE /\ Return(http_response_to_grid(res))
            /\ last_body' = res.body

\* the responses the server can give to the handshake request in flight
ServerFirstResponsesNow ==
    IF pc = "server_first" THEN ServerFirstResponses(hs_sent[Len(hs_sent)]) ELSE {}

ServerSecondResponsesNow ==
    IF pc = "server_second" THEN ServerSecondResponses(srv.hash_fn, password, srv.memo)
    ELSE {}

Next ==
    \/ about
    \/ \E axon_expr \in AxonExprs : eval(axon_expr)
    \/ \E res \in ApiResponses : FirstResponse(res)
    \/ \E res \in HelloResponses, rnd \in RngOutcomes : HelloResponse(res, rnd)
    \/ \E res \in ServerFirstResponsesNow : ServerFirstResponse(res)
    \/ \E res \in ServerSecondResponsesNow : ServerSecondResponse(res)
    \/ \E res \in ApiResponses : RetryResponse(res)

Spec == Init /\ [][Next]_vars

\* Calls whose first response is 403: the handshakes of successive calls,
\* with the failure of the previous one remembered
ForbiddenResponses ==
    {[transport_ok |-> TRUE, status |-> FORBIDDEN, body |-> Err("not JSON")]}

NextAuth ==
    \/ ops
    \/ \E res \in ForbiddenResponses : FirstResponse(res)
    \/ \E res \in HelloResponses, rnd \in RngOutcomes : HelloResponse(res, rnd)
    \/ \E res \in ServerFirstResponsesNow : ServerFirstResponse(res)
    \/ \E res \in ServerSecondResponsesNow : ServerSecondResponse(res)
    \/ \E res \in {TransportError} : RetryResponse(res)

SpecAuth == Init /\ [][NextAuth]_vars

(***************************************************************************)
(* parse_key_value_pairs applied to the texts of up to MaxFragments        *)
(* fragments joined by delimiters                                          *)
(***************************************************************************)
KvFragments ==
    {Str(<<"r", "=", "a", "b", "c">>), Str(<<"s", "=", "d", "e", "f">>),
     Str(<<"i", "=", "4", "0", "9", "6">>), Garbage,
     Str(<<"S", "C", "R", "A", "M">>), SCRAM_lower, <<>>}

\* the fragments frags with the delimiter seps[k] after the fragment k
RECURSIVE join(_, _)
join(frags, seps) ==
    IF Len(frags) = 1 THEN frags[1]
    ELSE frags[1] \o <<seps[1]>> \o join(Tail(frags), Tail(seps))

KvInputs ==
    UNION {{[frags |-> f, seps |-> d] :
                f \in [1..n -> KvFragments], d \in [1..(n - 1) -> delimiters]} :
           n \in 1..MaxFragments}

InitParse ==
    /\ Constructed
    /\ fn_arg \in KvInputs
    /\ fn_ret = None

ParseKeyValuePairs ==
    /\ fn_arg # None
    /\ fn_ret = None
    /\ fn_ret' = parse_key_value_pairs(join(fn_arg.frags, fn_arg.seps))
    /\ UNCHANGED <<call_vars, fn_arg>>

NextParse == ParseKeyValuePairs

SpecParse == InitParse /\ [][NextParse]_vars

(***************************************************************************)
(* parse_key_value_pairs applied to two fragments of up to MaxKvLen        *)
(* symbols joined by a comma, and KeyValuePairs::get on the outcome        *)
(***************************************************************************)
MaxKvLen == 3

KvSyms == {Ch("k"), Ch("K"), Ch("a"), EQ}

KvTexts == UNION {[1..n -> KvSyms] : n \in 1..MaxKvLen}

KvKeys == {Str(<<"k">>), Str(<<"K">>)}

InitKv ==
    /\ Constructed
    /\ auth_token = Str(<<"t", "1">>)
    /\ fn_arg \in [first : KvTexts, second : KvTexts, key : KvKeys]
    /\ fn_ret = None

ParseKv ==
    /\ fn_ret = None
    /\ fn_ret' = [parsed |-> parse_key_value_pairs(fn_arg.first \o <<Ch(",")>> \o fn_arg.second)]
    /\ UNCHANGED <<call_vars, fn_arg>>

KvGet ==
    /\ fn_ret # None
    /\ fn_ret.parsed.ok
    /\ "got" \notin DOMAIN fn_ret
    /\ fn_ret' = [parsed |-> fn_ret.parsed,
                  got |-> KeyValuePairs_get(fn_ret.parsed.val, fn_arg.key)]
    /\ UNCHANGED <<call_vars, fn_arg>>

NextKv == ParseKv \/ KvGet

SpecKv == InitKv /\ [][NextKv]_vars

(***************************************************************************)
(* generate_nonce applied to two outcomes of rng.fill: a failure, or 32    *)
(* bytes of which the first MaxVaried vary                                 *)
(***************************************************************************)
MaxVaried == 2

ByteVals == {0, 1, 16, 17}

FilledBytes ==
    {[i \in 1..nonce_len |-> IF i <= MaxVaried THEN f[i] ELSE 165] :
         f \in [1..MaxVaried -> ByteVals]}

RngFills == {Err("unspecified")} \cup {Ok(bytes) : bytes \in FilledBytes}

InitNonce ==
    /\ Constructed
    /\ auth_token = Str(<<"t", "1">>)
    /\ fn_arg \in [a : RngFills, b : RngFills]
    /\ fn_ret = None

GenerateNonce ==
    /\ fn_ret = None
    /\ fn_ret' = [a |-> generate_nonce(fn_arg.a), b |-> generate_nonce(fn_arg.b)]
    /\ UNCHANGED <<call_vars, fn_arg>>

NextNonce == GenerateNonce

SpecNonce == InitNonce /\ [][NextNonce]_vars

(***************************************************************************)
(* The standalone eval (src/src/eval.rs).  The URL it is given is valid,   *)
(* as project_api_url is.                                                  *)
(***************************************************************************)
\* the argument auth_token: Option<&str>
SuppliedTokens == {None} \cup {[some |-> t] : t \in Tokens}

\* the texts given as project API URL: /api/p/ with and without the last
\* '/', with a query, without a project, with an extra segment, with
\* another first segment, without a path, with an opaque path, and
\* without a scheme
ProjectUrlTexts ==
    {<<"http://h", "/", "api", "/", "p", "/">>,
     <<"http://h", "/", "api", "/", "p">>,
     <<"http://h", "/", "api", "/", "p", "/", "?", "p">>,
     <<"http://h", "/", "api", "/">>,
     <<"http://h", "/", "api", "/", "p", "/", "p">>,
     <<"http://h", "/", "p", "/", "api", "/">>,
     <<"http://h">>,
     <<"mailto:x", "/", "api", "/", "p", "/">>,
     <<"api", "/", "p", "/">>}

\* eval, up to its first round trip: the URL error when the text is not a
\* project API URL, the HELLO of new_auth_token when no token is supplied,
\* the eval request otherwise.  username, password and project_api_url
\* are here the arguments and locals of eval.  The function keeps nothing
\* between calls: a behaviour follows one call.
eval_standalone(project_api_url_, username_, password_, axon_expr, token) ==
    /\ pc = "idle"
    /\ ev = None
    /\ username' = username_
    /\ password' = password_
    /\ faults' = <<>>
    /\ hs_result' = None
    /\ hs_last' = None
    /\ first_res' = None
    /\ retry_res' = None
    /\ last_body' = None
    /\ rng_out' = None
    /\ UNCHANGED <<auth_token, fn_vars, hs, srv, token_hist, prev_failure>>
    /\ \E checked \in {eval_project_api_url(project_api_url_)} :
          IF ~checked.ok
          THEN /\ result' = Err(checked.err)
               /\ ev' = [auth_token |-> None, was_new_token_obtained |-> FALSE,
                         arg |-> token, url |-> project_api_url_]
               /\ UNCHANGED <<pc, project_api_url>>
               /\ call' = None
               /\ hs_runs' = 0
               /\ hs_sent' = <<>>
               /\ api_sent' = <<>>
          ELSE /\ project_api_url' = checked.val
               /\ call' = [method |-> "POST", url |-> append_to_url(checked.val, "eval"),
                           grid |-> new_internal(<<JObject([expr |-> JString(axon_expr)])>>)]
               /\ result' = None
               /\ IF token = None
                  THEN /\ ev' = [auth_token |-> None, was_new_token_obtained |-> TRUE,
                                 arg |-> token, url |-> project_api_url_]
                       /\ pc' = "hello"
                       /\ hs_runs' = 1
                       /\ hs_sent' = <<hello_request(set_path_ui(checked.val), username_)>>
                       /\ api_sent' = <<>>
                  ELSE /\ ev' = [auth_token |-> token.some,
                                 was_new_token_obtained |-> FALSE,
                                 arg |-> token, url |-> project_api_url_]
                       /\ pc' = "first"
                       /\ hs_runs' = 0
                       /\ hs_sent' = <<>>
                       /\ api_sent' = <<req_with_token(token.some, call')>>

\* SkySparkClient::new_with_client, up to its first round trip: the URL
\* error, or the HELLO of new_auth_token.  username, password and
\* project_api_url are its arguments until it returns the client.
new_with_client(project_api_url_, username_, password_) ==
    /\ pc = "idle"
    /\ ev = None
    /\ auth_token = None
    /\ username' = username_
    /\ password' = password_
    /\ ev' = [new_with_client |-> TRUE, url |-> project_api_url_]
    /\ faults' = <<>>
    /\ hs_result' = None
    /\ hs_last' = None
    /\ first_res' = None
    /\ retry_res' = None
    /\ last_body' = None
    /\ rng_out' = None
    /\ call' = None
    /\ api_sent' = <<>>
    /\ UNCHANGED <<auth_token, fn_vars, hs, srv, token_hist, prev_failure>>
    /\ \E checked \in {validated(project_api_url_)} :
          IF ~checked.ok
          THEN /\ result' = Err(NewSkySparkClientError_url(checked.err))
               /\ UNCHANGED <<pc, project_api_url>>
               /\ hs_runs' = 0
               /\ hs_sent' = <<>>
          ELSE /\ project_api_url' = checked.val
               /\ result' = None
               /\ pc' = "hello"
               /\ hs_runs' = 1
               /\ hs_sent' = <<hello_request(set_path_ui(checked.val), username_)>>

\* eval, from the response to its first request on
EvalFirstResponse(res) ==
    /\ pc = "first"
    /\ ev # None
    /\ first_res' = summary(res)
    /\ UNCHANGED <<auth_token, client_fields, fn_vars, call, api_sent, hs_result, hs_last,
                   faults, retry_res, prev_failure, rng_out, token_hist, ev>>
    /\ IF ~res.transport_ok
       THEN /\ Return(Err(EvalError_Http))
            /\ UNCHANGED <<hs_sent, hs_runs, last_body>>
       ELSE IF is_forbidden(res)
       THEN /\ pc' = "hello"
            /\ hs_runs' = hs_runs + 1
            /\ hs_sent' = Append(hs_sent, hello_request(auth_url, username))
            /\ UNCHANGED <<result, hs, srv, last_body>>
       ELSE /\ Return(EvalOutput_new(http_response_to_grid(res),
                                     IF ev.was_new_token_obtained
                                     THEN [some |-> ev.auth_token] ELSE None))
            /\ last_body' = res.body
            /\ UNCHANGED <<hs_sent, hs_runs>>

\* eval, from the response to its retry on
EvalRetryResponse(res) ==
    /\ pc = "retry"
    /\ ev # None
    /\ retry_res' = summary(res)
    /\ UNCHANGED <<auth_token, client_fields, fn_vars, call, api_sent, hs_sent, hs_runs,
                   hs_result, hs_last, faults, first_res, prev_failure, rng_out,
                   token_hist, ev>>
    /\ IF ~res.transport_ok
       THEN /\ Return(Err(EvalError_Http))
            /\ UNCHANGED last_body
       ELSE /\ Return(EvalOutput_new(http_response_to_grid(res), [some |-> ev.auth_token]))
            /\ last_body' = res.body

NextEval ==
    \/ \E url \in ProjectUrlTexts, u \in Usernames, p \in Passwords,
          axon_expr \in AxonExprs, token \in SuppliedTokens :
           eval_standalone(url, u, p, axon_expr, token)
    \/ \E res \in ApiResponses : EvalFirstResponse(res)
    \/ \E res \in HelloResponses, rnd \in RngOutcomes : HelloResponse(res, rnd)
    \/ \E res \in ServerFirstResponsesNow : ServerFirstResponse(res)
    \/ \E res \in ServerSecondResponsesNow : ServerSecondResponse(res)
    \/ \E res \in ApiResponses : EvalRetryResponse(res)

SpecEval == Init /\ [][NextEval]_vars

(***************************************************************************)
(* The calls through the Session Guard, with every round trip eventually   *)
(* returning: a program either calls get and post on its client, or calls  *)
(* the standalone eval once                                                *)
(***************************************************************************)
GuardUrlTexts == {<<"http://h", "/", "api", "/", "p", "/">>}

NextGuard ==
    \/ ev = None /\ about
    \/ ev = None /\ \E axon_expr \in AxonExprs : eval(axon_expr)
    \/ \E res \in ApiResponses : FirstResponse(res)
    \/ \E res \in ApiResponses : RetryResponse(res)
    \/ /\ call = None
       /\ \E url \in GuardUrlTexts, u \in Usernames, p \in Passwords,
             axon_expr \in AxonExprs, token \in SuppliedTokens :
              eval_standalone(url, u, p, axon_expr, token)
    \/ \E res \in ApiResponses : EvalFirstResponse(res)
    \/ \E res \in ApiResponses : EvalRetryResponse(res)
    \/ \E res \in HelloResponses, rnd \in RngOutcomes : HelloResponse(res, rnd)
    \/ \E res \in ServerFirstResponsesNow : ServerFirstResponse(res)
    \/ \E res \in ServerSecondResponsesNow : ServerSecondResponse(res)

\* An answer to the request in flight.  Every answer to the client-first
\* request ends the wait for it, so the transport failure stands for all of
\* them here: the fairness of this action excludes exactly the behaviours
\* that wait for an answer forever.
Answered ==
    \/ \E res \in ApiResponses : FirstResponse(res)
    \/ \E res \in ApiResponses : RetryResponse(res)
    \/ \E res \in ApiResponses : EvalFirstResponse(res)
    \/ \E res \in ApiResponses : EvalRetryResponse(res)
    \/ \E res \in HelloResponses, rnd \in RngOutcomes : HelloResponse(res, rnd)
    \/ \E res \in {TransportError} : ServerFirstResponse(res)
    \/ \E res \in ServerSecondResponsesNow : ServerSecondResponse(res)

\* .send().await returns: the request in flight is eventually answered
RoundTripsReturn == WF_vars(Answered)

SpecGuard == Init /\ [][NextGuard]_vars /\ RoundTripsReturn

(***************************************************************************)
(* The two entry points that are given a project API URL, from a state     *)
(* without a client                                                        *)
(***************************************************************************)
NoClient ==
    /\ auth_token = None
    /\ username = None
    /\ password = None
    /\ project_api_url = None
    /\ pc = "idle"
    /\ call = None
    /\ result = None
    /\ hs = None
    /\ srv = None
    /\ api_sent = <<>>
    /\ hs_sent = <<>>
    /\ hs_runs = 0
    /\ hs_result = None
    /\ hs_last = None
    /\ faults = <<>>
    /\ first_res = None
    /\ retry_res = None
    /\ last_body = None
    /\ prev_failure = None
    /\ rng_out = None
    /\ valid_tokens = {}
    /\ refreshes = 0
    /\ ev = None

InitNew ==
    /\ NoClient
    /\ fn_arg = None
    /\ fn_ret = None

\* the values of type Url given to new_with_client
ProjectUrls == {Url_parse(t).val : t \in {x \in ProjectUrlTexts : Url_parse(x).ok}}

NextNew ==
    \/ \E url \in ProjectUrls, u \in Usernames, p \in Passwords :
           new_with_client(url, u, p)
    \/ \E url \in ProjectUrlTexts, u \in Usernames, p \in Passwords,
          axon_expr \in AxonExprs, token \in SuppliedTokens :
           eval_standalone(url, u, p, axon_expr, token)
    \/ \E res \in ApiResponses : EvalFirstResponse(res)
    \/ \E res \in HelloResponses, rnd \in RngOutcomes : HelloResponse(res, rnd)
    \/ \E res \in ServerFirstResponsesNow : ServerFirstResponse(res)
    \/ \E res \in ServerSecondResponsesNow : ServerSecondResponse(res)
    \/ \E res \in ApiResponses : EvalRetryResponse(res)

SpecNew == InitNew /\ [][NextNew]_vars

(***************************************************************************)
(* add_backslash_if_necessary and has_valid_path_segments applied to every *)
(* URL of up to MaxUrlLen tokens after the head                            *)
(***************************************************************************)
\* the two functions take no client: one client is enough
InitUrl ==
    /\ Constructed
    /\ auth_token = Str(<<"t", "1">>)
    /\ fn_arg \in [f : {"add_backslash_if_necessary", "has_valid_path_segments"},
                   url : Urls]
    /\ fn_ret = None

AddBackslash ==
    /\ fn_arg.f = "add_backslash_if_necessary"
    /\ fn_ret = None
    /\ fn_ret' = [val |-> add_backslash_if_necessary(fn_arg.url), n |-> 1]
    /\ UNCHANGED <<fn_arg, call_vars>>

\* the function applied to its own result
AddBackslashAgain ==
    /\ fn_arg.f = "add_backslash_if_necessary"
    /\ fn_ret # None
    /\ fn_ret.n = 1
    /\ fn_ret' = [val |-> add_backslash_if_necessary(fn_ret.val), n |-> 2,
                  once |-> fn_ret.val]
    /\ UNCHANGED <<fn_arg, call_vars>>

HasValidPathSegments ==
    /\ fn_arg.f = "has_valid_path_segments"
    /\ fn_ret = None
    /\ fn_ret' = [val |-> has_valid_path_segments(fn_arg.url)]
    /\ UNCHANGED <<fn_arg, call_vars>>

NextUrl == AddBackslash \/ AddBackslashAgain \/ HasValidPathSegments

SpecUrl == InitUrl /\ [][NextUrl]_vars

(***************************************************************************)
(* Grids: a grid is obtained from Grid::new, Grid::empty or a JSON value,  *)
(* then up to MaxGridOps operations are applied to it.  fn_ret holds the   *)
(* grid, what the last operation returned, the grid before it and how the  *)
(* grid was obtained.                                                      *)
(***************************************************************************)
MaxRows == 2

MaxGridOps == 2

\* rows given to Grid::new and add_rows: objects with tag names as keys,
\* an object with a key that is no tag name, and a value that is no object
GoodRows ==
    {JObject(<<>>),
     JObject([a |-> JString("1")]),
     JObject([b |-> JString("2")]),
     JObject([a |-> JString("1"), b |-> JString("2")]),
     JObject([a |-> JString("2"), c |-> JString("1")])}

RowPool == GoodRows \cup {JObject([B |-> JString("1")]), JString("row")}

RowLists == UNION {[1..n -> RowPool] : n \in 0..MaxRows}

\* the column names given to remove_cols and keep_cols
NameLists == UNION {[1..n -> {"a", "b", "c"}] : n \in 0..2}

\* JSON values given to Grid::try_from: the columns in any order, and one
\* value without rows
JsonGrids ==
    {JObject([meta |-> JObject([ver |-> JString("3.0")]),
              cols |-> JArray(all_objects(names)),
              rows |-> JArray(rows_)]) :
        names \in UNION {[1..n -> {"a", "b"}] : n \in 0..2},
        rows_ \in {<<>>, <<JObject([a |-> JString("1"), b |-> JString("2")])>>}}
    \cup {JObject([meta |-> JObject([ver |-> JString("3.0")]), cols |-> JArray(<<>>)])}

InitGrid ==
    /\ Constructed
    /\ auth_token = Str(<<"t", "1">>)
    /\ fn_arg = None
    /\ fn_ret = None

\* the grid is obtained; a failed construction ends the behaviour
Obtained(op, made) ==
    /\ fn_ret = None
    /\ fn_arg' = op
    /\ fn_ret' = IF made.ok
                 THEN [grid |-> made.val, ret |-> made, old |-> None, n |-> 0,
                       origin |-> op.op]
                 ELSE [grid |-> None, ret |-> made, old |-> None, n |-> MaxGridOps,
                       origin |-> op.op]
    /\ UNCHANGED call_vars

GridNew == \E rows_ \in RowLists : Obtained([op |-> "new", rows |-> rows_], Grid_new(rows_))

GridEmpty == Obtained([op |-> "empty"], Ok(Grid_empty))

GridTryFrom ==
    \E value \in JsonGrids : Obtained([op |-> "try_from", value |-> value], Grid_try_from(value))

\* an operation is applied to the grid
Applied(op, out) ==
    /\ fn_ret # None
    /\ fn_ret.n < MaxGridOps
    /\ fn_arg' = op
    /\ fn_ret' = [grid |-> out.grid, ret |-> out.ret, old |-> fn_ret.grid,
                  n |-> fn_ret.n + 1, origin |-> fn_ret.origin]
    /\ UNCHANGED call_vars

GridAddCol ==
    \E col_name \in {"a", "b", "c"}, f \in {"constant", "other"} :
        /\ fn_ret # None /\ fn_ret.grid # None
        /\ Applied([op |-> "add_col", col_name |-> col_name, f |-> f],
                   add_col(fn_ret.grid, col_name, f))

GridAddRows ==
    \E rows_ \in RowLists :
        /\ fn_ret # None /\ fn_ret.grid # None
        /\ Len(rows(fn_ret.grid)) + Len(rows_) <= MaxRows
        /\ Applied([op |-> "add_rows", rows |-> rows_], add_rows(fn_ret.grid, rows_))

GridRemoveCols ==
    \E col_names \in NameLists :
        /\ fn_ret # None /\ fn_ret.grid # None
        /\ Applied([op |-> "remove_cols", col_names |-> col_names],
                   remove_cols(fn_ret.grid, col_names))

GridKeepCols ==
    \E cols_to_keep \in NameLists :
        /\ fn_ret # None /\ fn_ret.grid # None
        /\ Applied([op |-> "keep_cols", col_names |-> cols_to_keep],
                   keep_cols(fn_ret.grid, cols_to_keep))

GridRenameCol ==
    \E col_name \in {"a", "b", "c"}, new_col_name \in {"a", "b", "c"} :
        /\ fn_ret # None /\ fn_ret.grid # None
        /\ Applied([op |-> "rename_col", col_name |-> col_name,
                    new_col_name |-> new_col_name],
                   rename_col(fn_ret.grid, col_name, new_col_name))

GridMapCol ==
    \E col_name \in {"a", "b", "c"}, f \in {"constant", "other"} :
        /\ fn_ret # None /\ fn_ret.grid # None
        /\ Applied([op |-> "map_col", col_name |-> col_name, f |-> f],
                   map_col(fn_ret.grid, col_name, f))

GridSortRows ==
    \E cmp \in {"ascending", "descending"} :
        /\ fn_ret # None /\ fn_ret.grid # None
        /\ Applied([op |-> "sort_rows", cmp |-> cmp], sort_rows(fn_ret.grid, cmp))

GridConcat ==
    \E rows_ \in {r \in RowLists : Grid_new(r).ok} :
        /\ fn_ret # None /\ fn_ret.grid # None
        /\ Len(rows(fn_ret.grid)) + Len(rows_) <= MaxRows
        /\ Applied([op |-> "concat_grid", other |-> Grid_new(rows_).val],
                   concat_grid(fn_ret.grid, Grid_new(rows_).val))

NextGrid ==
    \/ GridNew
    \/ GridEmpty
    \/ GridTryFrom
    \/ GridAddCol
    \/ GridAddRows
    \/ GridRemoveCols
    \/ GridKeepCols
    \/ GridRenameCol
    \/ GridMapCol
    \/ GridSortRows
    \/ GridConcat

SpecGrid == InitGrid /\ [][NextGrid]_vars

(***************************************************************************)
(* Time zone names (src/src/tz.rs).  A name is a sequence of tokens,       *)
(* parts and '/'.  TZ_VARIANTS is the table of the chrono_tz crate, in its *)
(* order (that of the names as strings); the model keeps the zones below.  *)
(***************************************************************************)
MaxTzLen == 3

TZ_VARIANTS ==
    << <<"America", "/", "Jamaica">>,
       <<"Australia", "/", "Sydney">>,
       <<"Etc", "/", "UTC">>,
       <<"Jamaica">>,
       <<"UTC">> >>

TzSyms == {"/", "America", "Australia", "Etc", "Jamaica", "Sydney", "UTC"}

TzTexts == UNION {[1..n -> TzSyms] : n \in 0..MaxTzLen}

\* time_zone_name_to_short_name: the last non-empty part
time_zone_name_to_short_name(tz_name) ==
    LET non_empty(part) == part # <<>>
        parts == SelectSeq(split_path(tz_name), non_empty)
    IN  parts[Len(parts)]

\* skyspark_tz_string_to_tz: Iterator::find, the first zone of the table
\* whose full name or short name is s
skyspark_tz_string_to_tz(s) ==
    LET matches(i) == \/ TZ_VARIANTS[i] = s
                      \/ time_zone_name_to_short_name(TZ_VARIANTS[i]) = s
    IN  IF \E i \in 1..Len(TZ_VARIANTS) : matches(i)
        THEN [some |-> TZ_VARIANTS[CHOOSE i \in 1..Len(TZ_VARIANTS) :
                           matches(i) /\ \A j \in 1..(i - 1) : ~matches(j)]]
        ELSE None

InitTz ==
    /\ Constructed
    /\ auth_token = Str(<<"t", "1">>)
    /\ fn_arg \in [f : {"skyspark_tz_string_to_tz"}, s : TzTexts]
    /\ fn_ret = None

TzLookup ==
    /\ fn_ret = None
    /\ fn_ret' = [val |-> skyspark_tz_string_to_tz(fn_arg.s)]
    /\ UNCHANGED <<fn_arg, call_vars>>

NextTz == TzLookup

SpecTz == InitTz /\ [][NextTz]_vars

TypeOK ==
    /\ pc \in {"idle", "first", "hello", "server_first", "server_second", "retry",
               "panicked"}
    /\ hs_runs \in 0..2
    /\ Len(api_sent) \in 0..2
    /\ Len(hs_sent) \in 0..6
    /\ ev = None => hs_runs \in 0..1 /\ Len(hs_sent) \in 0..3
    /\ valid_tokens \subseteq Tokens
    /\ refreshes \in 0..MaxRefreshes

(***************************************************************************)
(* Properties                                                              *)
(***************************************************************************)
Last(q) == q[Len(q)]

StartsWith(s, prefix) == Len(s) >= Len(prefix) /\ SubSeq(s, 1, Len(prefix)) = prefix

HELLO == Str(<<"H", "E", "L", "L", "O", " ">>)

SCRAM == Str(<<"S", "C", "R", "A", "M", " ">>)

BearerHeader(token) ==
    Str(<<"B", "E", "A", "R", "E", "R", " ", "a", "u", "t", "h", "T", "o", "k", "e", "n", "=">>)
        \o token

FirstForbidden == first_res # None /\ first_res.transport_ok /\ first_res.status = 403

RetryForbidden == retry_res # None /\ retry_res.transport_ok /\ retry_res.status = 403

HandshakeOk == hs_result # None /\ hs_result.ok

HandshakeFailed == hs_result # None /\ ~hs_result.ok

SameRequest(a, b) == a.method = b.method /\ a.url = b.url /\ a.body = b.body

\* C1: when the first response of get or post is 403 Forbidden, the
\* handshake is run exactly once, the token it returns is stored, and the
\* same request (method, URL, body) is sent again exactly once.
C1_ForbiddenRefreshesOnceRetriesOnce ==
    /\ hs_runs <= 1
    /\ Len(api_sent) <= 2
    /\ Cardinality({i \in 1..Len(hs_sent) : StartsWith(hs_sent[i].Authorization, HELLO)})
         = hs_runs
    /\ FirstForbidden => hs_runs = 1
    /\ FirstForbidden /\ HandshakeOk =>
          /\ auth_token = hs_result.val
          /\ Len(api_sent) = 2
          /\ SameRequest(api_sent[1], api_sent[2])
    /\ ~HandshakeOk => Len(api_sent) <= 1

\* a POST answered with 403 was retried after a refresh and returned a grid
C1_Witness ==
    /\ pc = "idle" /\ result # None /\ result.ok
    /\ FirstForbidden /\ HandshakeOk
    /\ Len(api_sent) = 2 /\ api_sent[1].method = "POST"

\* C2: when the retry is also answered with 403 Forbidden the call returns
\* an error, whatever the body, and makes no third request and no second
\* handshake.
C2_SecondForbiddenIsAnError ==
    RetryForbidden /\ pc = "idle" =>
        /\ ~result.ok
        /\ Len(api_sent) = 2
        /\ hs_runs = 1

\* C3: only a 403 on the first response triggers re-authentication: after
\* a transport error or any other status no handshake is run, the request
\* is not sent again, and a transport error is returned as the Http kind.
C3_OnlyForbiddenTriggersHandshake ==
    /\ hs_runs > 0 => FirstForbidden
    /\ first_res # None /\ ~FirstForbidden =>
          /\ hs_runs = 0
          /\ hs_sent = <<>>
          /\ Len(api_sent) = 1
          /\ pc = "idle"
          /\ (~first_res.transport_ok => result = Err([kind |-> "Http"]))

\* the first request failed in the transport and the call returned Http
C3_Witness ==
    /\ first_res # None /\ ~first_res.transport_ok
    /\ result = Err([kind |-> "Http"])
    /\ Len(api_sent) = 1

\* C4: when the handshake triggered by a 403 fails, the call returns that
\* authentication error, sends no retry and leaves auth_token as it was;
\* auth_token changes only by being replaced with the token returned by a
\* handshake that succeeded.
C4_Step ==
    /\ (hs_result = None /\ hs_result' # None /\ ~hs_result'.ok) =>
          /\ auth_token' = auth_token
          /\ api_sent' = api_sent
          /\ pc' = "idle"
          /\ result' = Err([kind |-> "UpdateAuthToken",
                            err |-> AuthError_from(hs_result'.err)])
    /\ auth_token' # auth_token =>
          /\ hs_result = None
          /\ hs_result' = Ok(auth_token')
          /\ hs_last'.auth_token = auth_token'
          /\ auth_token' \in Tokens

C4_FailedHandshakeKeepsToken ==
    /\ [](HandshakeFailed =>
            /\ Len(api_sent) = 1
            /\ api_sent[1].headers.Authorization = BearerHeader(auth_token)
            /\ pc = "idle" /\ ~result.ok)
    /\ [][C4_Step]_vars

\* a handshake failed on a response that issued a token, and the client
\* still holds the token it sent with the first request
C4_Witness ==
    /\ HandshakeFailed /\ pc = "idle"
    /\ hs_last # None /\ hs_last.auth_token # auth_token
    /\ api_sent[1].headers.Authorization = BearerHeader(auth_token)

\* C5: every API request carries "BEARER authToken=<t>" with t the value
\* of auth_token when it is sent; the retry after a refresh carries the
\* token the handshake returned, and auth_token changes at no other time,
\* so that later calls send that token.
C5_Step ==
    /\ api_sent' # api_sent =>
          Last(api_sent').headers.Authorization = BearerHeader(auth_token')
    /\ (Len(api_sent) = 1 /\ Len(api_sent') = 2) =>
          /\ hs_result' # None /\ hs_result'.ok
          /\ Last(api_sent').headers.Authorization = BearerHeader(hs_result'.val)
          /\ hs_result'.val = hs_last'.auth_token
    /\ auth_token' # auth_token => (Len(api_sent) = 1 /\ Len(api_sent') = 2)

C5_BearerHeaderCarriesCurrentToken == [][C5_Step]_vars

\* the retry carried another token than the first request, and it is the
\* token the client holds after the call
C5_Witness ==
    /\ Len(api_sent) = 2 /\ pc = "idle"
    /\ api_sent[1].headers.Authorization # api_sent[2].headers.Authorization
    /\ api_sent[2].headers.Authorization = BearerHeader(auth_token)

\* the signature the client computes: the base64 text of
\* HMAC(HMAC(salted_password, "Server Key"), auth_message)
ComputedSignature(h) ==
    LET tag == hmac_sign(h.hash_fn, hmac_sign(h.hash_fn, h.salted_password, ServerKeyLit),
                         as_bytes(h.auth_msg))
    IN <<B64Sym(tag)>> \o [i \in 1..((3 - (tag.len % 3)) % 3) |-> EQ]

\* C6: whenever the signature the client computes differs as a string from
\* the received v, new_auth_token fails with ServerValidation although
\* every earlier step succeeded and an authToken was received; that token
\* is neither returned nor stored.
C6_SignatureMismatchFailsValidation ==
    (hs_last # None /\ ComputedSignature(hs_last) # hs_last.server_signature) =>
        /\ hs_result = Err([variant |-> "ServerValidation", server_id |-> auth_url])
        /\ result = Err([kind |-> "UpdateAuthToken",
                         err |-> [variant |-> "ServerValidation", server_id |-> auth_url]])
        /\ Len(api_sent) = 1
        /\ api_sent[1].headers.Authorization = BearerHeader(auth_token)

\* a server sent a signature made with another password together with a
\* token the client does not hold; the call failed with ServerValidation
C6_Witness ==
    /\ hs_last # None /\ Len(faults) = 3 /\ faults[3] = "signature"
    /\ hs_last.auth_token # auth_token
    /\ hs_result = Err([variant |-> "ServerValidation", server_id |-> auth_url])

\* the three responses of the handshake were those of a conforming server
ConformingServer == Len(faults) = 3 /\ \A i \in 1..3 : faults[i] = "none"

\* C7: against a server that implements the protocol as specified, with v
\* the unpadded standard base64 of HMAC(HMAC(salted_password, "Server
\* Key"), auth_message), new_auth_token succeeds and returns the authToken
\* issued in round 3.
C7_ConformingServerYieldsToken ==
    (/\ hs_last # None
     /\ ConformingServer
     /\ hs_last.server_signature =
            <<B64Sym(server_signature_of(hs_last.hash_fn, password, hs_last.memo))>>)
    => hs_result = Ok(hs_last.auth_token)

\* C8: the handshake is the linear sequence HELLO, SCRAM client-first,
\* SCRAM client-final; the request of round k+1 is sent only after the
\* response of round k was received and parsed, the first failure ends the
\* attempt with no further request, and an absent www-authenticate header
\* in round 1 fails the handshake with no round-2 or round-3 request.
C8_HandshakeIsLinear ==
    /\ Len(hs_sent) <= 3
    /\ Len(hs_sent) >= 1 => StartsWith(hs_sent[1].Authorization, HELLO)
    /\ \A k \in 2..Len(hs_sent) : StartsWith(hs_sent[k].Authorization, SCRAM)
    /\ Len(faults) <= Len(hs_sent)
    /\ Len(hs_sent) <= Len(faults) + 1
    /\ \A k \in 1..(Len(hs_sent) - 1) : faults[k] = "none"
    /\ (faults # <<>> /\ Last(faults) # "none") =>
          /\ Len(hs_sent) = Len(faults)
          /\ pc \in {"idle", "panicked"}
    /\ HandshakeFailed => Len(hs_sent) = Len(faults) /\ pc = "idle"
    /\ (faults # <<>> /\ faults[1] = "header absent") =>
          /\ Len(hs_sent) = 1
          /\ HandshakeFailed
          /\ hs_result.err.variant = "Handshake"
          /\ hs_result.err.err.msg = "missing HTTP header"

\* the round-1 response had no www-authenticate header: one request was
\* sent and the handshake has failed
C8_Witness ==
    /\ faults = <<"header absent">>
    /\ Len(hs_sent) = 1
    /\ HandshakeFailed

\* the failure causes the error taxonomy lists, by the label of the response
Cause(fault) ==
    CASE fault \in {"header absent", "header malformed"} -> "header"
      [] fault \in {"transport", "missing key", "unknown hash", "iterations",
                    "base64", "utf8", "signature"} -> fault
      [] OTHER -> "unlisted"

\* C9: every failure cause of the handshake is reported as its own error
\* kind and no two causes share a kind: of two failed handshakes with
\* different listed causes, the error kinds differ.
C9_DistinctCausesDistinctKinds ==
    (prev_failure # None /\ HandshakeFailed) =>
        LET cur == failure_of(hs_result, faults) IN
        (/\ Cause(prev_failure.cause) # "unlisted"
         /\ Cause(cur.cause) # "unlisted"
         /\ Cause(prev_failure.cause) # Cause(cur.cause))
        => prev_failure.kind # cur.kind

IsObj(v) == v.t = "obj"

IsObjArray(v) == v.t = "arr" /\ \A i \in 1..Len(v.a) : v.a[i].t = "obj"

\* a JSON document of the shape { meta: {..}, cols: [{..}..], rows: [{..}..] }
GridShaped(v) ==
    /\ IsObj(v)
    /\ {"meta", "cols", "rows"} \subseteq DOMAIN v.f
    /\ IsObj(v.f.meta) /\ IsObjArray(v.f.cols) /\ IsObjArray(v.f.rows)

ErrMarkerSet(v) == "err" \in DOMAIN v.f.meta.f /\ v.f.meta.f.err = [t |-> "str", s |-> "m:"]

\* C10: http_response_to_grid returns Err(Error::Grid) with the received
\* grid exactly when the meta of the parsed grid has the err marker;
\* otherwise Ok with the received grid; a body that is not a grid-shaped
\* JSON document gives a parse or HTTP error, never a Grid error.
C10_ErrorGridIffErrMarker ==
    last_body # None =>
        IF last_body.ok /\ GridShaped(last_body.val)
        THEN IF ErrMarkerSet(last_body.val)
             THEN result = Err([kind |-> "Grid", err_grid |-> [json |-> last_body.val]])
             ELSE result = Ok([json |-> last_body.val])
        ELSE ~result.ok /\ result.err.kind \in {"Http", "ParseJsonGrid"}

\* a response with the err marker in meta was returned as Error::Grid
C10_Witness ==
    /\ last_body # None /\ last_body.ok
    /\ result = Err([kind |-> "Grid", err_grid |-> [json |-> last_body.val]])
    /\ "errTrace" \in DOMAIN last_body.val.f.meta.f

\* a text holds no base64 value followed by padding, at any depth of encoding
RECURSIVE Unpadded(_)
Unpadded(s) ==
    \A i \in 1..Len(s) :
        IsB64Sym(s[i]) =>
            /\ (i < Len(s) => s[i + 1] # EQ)
            /\ ("txt" \in DOMAIN s[i].b64 => Unpadded(s[i].b64.txt))

\* C11: every base64 value the Authenticator produces or compares in a
\* handshake is in the standard alphabet without padding: those of the
\* requests it sends, and the expected server signature it compares with v.
C11_Base64NeverPadded ==
    /\ \A i \in 1..Len(hs_sent) : Unpadded(hs_sent[i].Authorization)
    /\ hs_last # None => Unpadded(ComputedSignature(hs_last))

\* "r=abc,s=def,i=4096"
KvExample ==
    [frags |-> <<Str(<<"r", "=", "a", "b", "c">>), Str(<<"s", "=", "d", "e", "f">>),
                 Str(<<"i", "=", "4", "0", "9", "6">>)>>,
     seps |-> <<Ch(","), Ch(",")>>]

HasEq(frag) == \E i \in 1..Len(frag) : frag[i] = EQ

\* the key and the value of a fragment that holds one '='
PairOf(frag) ==
    LET i == CHOOSE k \in 1..Len(frag) : frag[k] = EQ
    IN <<SubSeq(frag, 1, i - 1), SubSeq(frag, i + 1, Len(frag))>>

\* what the parse of the fragments kept has to be: an error when one of
\* them holds no '=', their pairs in input order otherwise
ParseOf(kept) ==
    IF \E i \in 1..Len(kept) : ~HasEq(kept[i])
    THEN [ok |-> FALSE, kind |-> "KeyValuePairParse"]
    ELSE [ok |-> TRUE, pairs |-> [i \in 1..Len(kept) |-> PairOf(kept[i])]]

\* what parse_key_value_pairs returned, without the error message
Parsed ==
    IF fn_ret.ok THEN [ok |-> TRUE, pairs |-> fn_ret.val]
    ELSE [ok |-> FALSE, kind |-> fn_ret.err.kind]

IsLiteralSCRAM(frag) == frag = Str(<<"S", "C", "R", "A", "M">>)

IsAnyCaseSCRAM(frag) == frag \in {Str(<<"S", "C", "R", "A", "M">>), Str(<<"s", "c", "r", "a", "m">>)}

\* C12 as stated: the fragments between spaces and commas, the literal
\* token SCRAM and the empty ones left out, are parsed in input order; one
\* remaining fragment without '=' makes the whole parse a key-value parse
\* error.  "r=abc,s=def,i=4096" yields r=abc, s=def, i=4096.
C12_ParseIgnoresLiteralSCRAM ==
    fn_ret # None =>
        LET remaining(frag) == ~IsLiteralSCRAM(frag) /\ frag # <<>>
        IN Parsed = ParseOf(SelectSeq(fn_arg.frags, remaining))

\* C12, amended: the token SCRAM is left out in any letter case, so a
\* fragment "scram" is ignored too and does not make the parse fail.
C12_ParseIgnoresSCRAMInAnyCase ==
    fn_ret # None =>
        LET remaining(frag) == ~IsAnyCaseSCRAM(frag) /\ frag # <<>>
        IN /\ Parsed = ParseOf(SelectSeq(fn_arg.frags, remaining))
           /\ fn_arg = KvExample =>
                  fn_ret.val = <<<<Str(<<"r">>), Str(<<"a", "b", "c">>)>>,
                                 <<Str(<<"s">>), Str(<<"d", "e", "f">>)>>,
                                 <<Str(<<"i">>), Str(<<"4", "0", "9", "6">>)>>>>

\* "SCRAM r=abc garbage" was parsed: the token SCRAM was ignored and the
\* fragment without '=' made the parse fail
C12_Witness ==
    /\ fn_ret # None
    /\ fn_arg.frags = <<Str(<<"S", "C", "R", "A", "M">>), Str(<<"r", "=", "a", "b", "c">>),
                        Garbage>>
    /\ ~fn_ret.ok

\* C13: in a handshake attempt the round-2 and the round-3 request carry
\* the handshakeToken that the round-1 response of that attempt issued,
\* whatever token another attempt was given.
C13_HandshakeTokenEchoed ==
    pc \in {"server_first", "server_second"} =>
        /\ srv.handshake_token \in HandshakeTokens
        /\ \A i \in 2..Len(hs_sent) :
               /\ StartsWith(hs_sent[i].Authorization, SCRAM)
               /\ srv_read(hs_sent[i]).handshake_token = srv.handshake_token

\* the round-3 request is out, in an attempt that was issued the second token
C13_Witness ==
    /\ pc = "server_second"
    /\ Len(hs_sent) = 3
    /\ srv.handshake_token = Str(<<"k", "2">>)
    /\ srv_read(hs_sent[3]).handshake_token = Str(<<"k", "2">>)

\* the output length, in bytes, of the hash function named h
OutLen(h) == CASE h = "Sha256" -> 32 [] h = "Sha512" -> 64

\* every PBKDF2, HMAC and digest in the making of the bytes b is that of
\* the hash function h and has its output length
RECURSIVE UsesHash(_, _)
UsesHash(b, h) ==
    IF "fn" \notin DOMAIN b THEN TRUE
    ELSE CASE b.fn = "pbkdf2" ->
                  b.hf = h /\ b.len = OutLen(h) /\ UsesHash(b.key, h) /\ UsesHash(b.salt, h)
           [] b.fn = "hmac" ->
                  b.hf = h /\ b.len = OutLen(h) /\ UsesHash(b.key, h) /\ UsesHash(b.data, h)
           [] b.fn = "digest" -> b.hf = h /\ b.len = OutLen(h) /\ UsesHash(b.input, h)
           [] b.fn = "xor" -> b.len = OutLen(h) /\ UsesHash(b.a, h) /\ UsesHash(b.b, h)

\* the client proof carried by the round-3 request req
ProofIn(req) ==
    base64_decode(KeyValuePairs_get(parse_key_value_pairs(srv_read(req).msg).val,
                                    Str(<<"p">>)).val).val

\* C14: the hash function is the one the round-1 response names; an unknown
\* name fails the handshake with the unknown-hash error before round 2; the
\* one choice is used for PBKDF2, for every HMAC and the digest of the
\* client proof and for the server-signature check, with outputs of 32
\* bytes for SHA-256 and of 64 bytes for SHA-512.
C14_OneHashFunctionPerAttempt ==
    /\ (faults = <<"unknown hash">>) =>
           /\ hs_result = Err(Handshake(ParseHashFunctionError))
           /\ Len(hs_sent) = 1
    /\ pc \in {"server_first", "server_second"} =>
           srv.hash_fn \in {"Sha256", "Sha512"} /\ hs.hash_fn = srv.hash_fn
    /\ pc = "server_second" =>
           /\ hs.salted_password.fn = "pbkdf2"
           /\ UsesHash(hs.salted_password, srv.hash_fn)
           /\ ProofIn(hs_sent[3]).fn = "xor"
           /\ UsesHash(ProofIn(hs_sent[3]), srv.hash_fn)
    /\ hs_last # None =>
           /\ hs_last.hash_fn = hs_last.srv_hash_fn
           /\ UsesHash(hs_last.salted_password, hs_last.srv_hash_fn)
           /\ ComputedSignature(hs_last)[1].b64.len = OutLen(hs_last.srv_hash_fn)

\* the server chose SHA-512 and the signature check was made with it
C14_Witness ==
    /\ hs_last # None
    /\ hs_last.srv_hash_fn = "Sha512"
    /\ hs_last.hash_fn = "Sha512"
    /\ hs_last.salted_password.len = 64

\* client_first + "," + server_first + "," + "c=biws,r=" + server nonce, of
\* the texts the server read in the round-2 request and sent in its response
AuthMessageOf(memo) ==
    memo.client_first \o Str(<<",">>) \o memo.server_first \o Str(<<",">>)
        \o Str(<<"c", "=", "b", "i", "w", "s", ",", "r", "=">>) \o memo.server_nonce

\* C15: auth_message is client_first, server_first and "c=biws,r=<server
\* nonce>" joined by commas, client_first being the text encoded into the
\* round-2 request and server_first the decoded data of the round-2
\* response; the same string is the HMAC input of the client signature
\* and of the server-signature check.
C15_AuthMessageComposition ==
    /\ pc = "server_second" =>
           /\ srv.memo.client_first = srv_read(hs_sent[2]).msg
           /\ hs.server_first_msg = srv.memo.server_first
           /\ hs.auth_msg = AuthMessageOf(srv.memo)
           /\ ProofIn(hs_sent[3]).b.fn = "hmac"
           /\ ProofIn(hs_sent[3]).b.data = [txt |-> AuthMessageOf(srv.memo)]
    /\ hs_last # None =>
           /\ hs_last.auth_msg = AuthMessageOf(hs_last.memo)
           /\ ComputedSignature(hs_last)[1].b64.data = [txt |-> AuthMessageOf(hs_last.memo)]

\* the server signature was checked in an attempt whose auth message has
\* the three parts
C15_Witness ==
    /\ hs_last # None
    /\ hs_last.memo.client_first # <<>>
    /\ hs_last.memo.server_first # <<>>
    /\ hs_last.auth_msg = AuthMessageOf(hs_last.memo)

\* the round-2 response of the attempt carried the iteration count 0
ZeroIterations == Len(faults) = 2 /\ faults[2] = "zero iterations"

\* C16: an iteration count of 0 in the round-2 message stops the attempt
\* fatally at that point: no key is derived, no round-3 request is sent, no
\* token is returned or stored, and nothing more is done, the attempt is
\* not retried.
C16_ZeroIterationsIsFatal ==
    /\ [](ZeroIterations =>
            /\ pc = "panicked"
            /\ "salted_password" \notin DOMAIN hs
            /\ Len(hs_sent) = 2
            /\ Len(api_sent) = 1
            /\ api_sent[1].headers.Authorization = BearerHeader(auth_token)
            /\ result = None
            /\ hs_result = None)
    /\ [][pc # "panicked"]_vars

\* a round-2 response with i=0 was received
C16_Witness == ZeroIterations /\ pc = "panicked"

\* the lower-case hexadecimal text of bytes that are all 16 or more
HexText(bytes) ==
    [i \in 1..(2 * Len(bytes)) |->
        LET b == bytes[(i + 1) \div 2]
        IN Ch(HexDigits[(IF i % 2 = 1 THEN b \div 16 ELSE b % 16) + 1])]

\* the client nonce in the client-first message of the request req
NonceIn(req) ==
    KeyValuePairs_get(parse_key_value_pairs(srv_read(req).msg).val, Str(<<"r">>)).val

\* C17: every attempt starts from scratch.  No handshake state exists
\* outside an attempt, so the Session Guard holds nothing but auth_token;
\* the nonce sent in round 2 is the one the generator produced in this
\* attempt, the handshake token is the one round 1 of this attempt issued,
\* and the salted password and the auth message are derived from the
\* salt, the iteration count and the messages of this attempt.
C17_EveryAttemptStartsFromScratch ==
    /\ pc \in {"idle", "first", "hello", "retry"} => hs = None
    /\ pc \in {"server_first", "server_second"} =>
           /\ rng_out # None /\ rng_out.ok
           /\ hs.nonce = HexText(rng_out.val)
           /\ NonceIn(hs_sent[2]) = HexText(rng_out.val)
           /\ hs.handshake_token = srv.handshake_token
    /\ pc = "server_second" =>
           /\ hs.salted_password.key = [txt |-> password]
           /\ hs.salted_password.salt = srv.memo.salt
           /\ hs.salted_password.iterations = srv.memo.iterations
           /\ hs.auth_msg = AuthMessageOf(srv.memo)

\* a later attempt of a client that has already refreshed its token once
\* is in round 3, with the second nonce and the second handshake token
C17_Witness ==
    /\ refreshes >= 1
    /\ pc = "server_second"
    /\ rng_out.val[1] = 74
    /\ hs.handshake_token = Str(<<"k", "2">>)

\* C18: get and post borrow the client mutably, so the calls of the callers
\* that share a client run one after the other, in any order.  In every
\* reachable state auth_token is the token of construction or the whole
\* token of a handshake that passed the server validation, the last one
\* written; it is never empty, mixed or partial.
C18_TokenIsAlwaysAWholeValidToken ==
    /\ auth_token \in valid_tokens
    /\ auth_token \in Tokens
    /\ (pc \in {"idle", "retry"} /\ ev = None /\ HandshakeOk) => auth_token = hs_result.val

\* two calls re-authenticated after a 403, one after the other, and the
\* token of the second is the one stored
C18_Witness ==
    /\ refreshes = 2
    /\ Cardinality(valid_tokens) = 2
    /\ HandshakeOk
    /\ auth_token = hs_result.val

\* the text holds the password in plain form, or the base64 of a text that
\* holds it, or the base64 of a salted password
RECURSIVE Exposes(_)
Exposes(text) ==
    \/ \E i \in 1..(Len(text) - Len(password) + 1) :
           SubSeq(text, i, i + Len(password) - 1) = password
    \/ \E i \in 1..Len(text) :
           /\ IsB64Sym(text[i])
           /\ \/ "txt" \in DOMAIN text[i].b64 /\ Exposes(text[i].b64.txt)
              \/ "fn" \in DOMAIN text[i].b64 /\ text[i].b64.fn = "pbkdf2"

\* C19: no request of the Authenticator or of the Session Guard holds the
\* password, in plain form or base64-encoded, or the salted password.  A
\* handshake request is a GET with an Authorization header; what it sends
\* of the credentials is the username and the client proof; an API
\* request sends the bearer token.
C19_PasswordNeverSent ==
    /\ \A i \in 1..Len(hs_sent) :
           /\ DOMAIN hs_sent[i] = {"method", "url", "Authorization"}
           /\ hs_sent[i].url = auth_url
           /\ ~Exposes(hs_sent[i].Authorization)
    /\ Len(hs_sent) >= 1 =>
           hs_sent[1].Authorization =
               HELLO \o Str(<<"u", "s", "e", "r", "n", "a", "m", "e", "=">>)
                     \o <<B64Sym([txt |-> username])>>
    /\ Len(hs_sent) >= 3 => ProofIn(hs_sent[3]).fn = "xor"
    /\ \A i \in 1..Len(api_sent) :
           /\ api_sent[i].url = call.url
           /\ api_sent[i].body = (IF call.grid = None THEN None ELSE call.grid.json)
           /\ \E t \in Tokens : api_sent[i].headers.Authorization = BearerHeader(t)
           /\ ~Exposes(api_sent[i].headers.Authorization)

\* the three handshake requests and the retry of a call were sent
C19_Witness == Len(hs_sent) = 3 /\ Len(api_sent) = 2

\* the standalone eval has returned an EvalOutput
EvalReturnedOutput == ev # None /\ pc = "idle" /\ result # None /\ result.ok

\* C20: the EvalOutput of the standalone eval holds Some(t) exactly when
\* a handshake was run in the call, that is when no token was supplied or
\* the token in use was answered with 403; t is then the token of the last
\* handshake, the one sent with the request whose response gave the grid.
\* When a supplied token is accepted no handshake is run and the output
\* holds None.
C20_EvalReportsNewToken ==
    EvalReturnedOutput =>
        /\ (result.val.new_auth_token # None) <=> (hs_runs > 0)
        /\ (hs_runs > 0) <=> (ev.arg = None \/ FirstForbidden)
        /\ hs_runs > 0 =>
               /\ HandshakeOk
               /\ result.val.new_auth_token = [some |-> hs_result.val]
               /\ Last(api_sent).headers.Authorization = BearerHeader(hs_result.val)
        /\ result.val.grid.json = last_body.val
        /\ (ev.arg # None /\ ~FirstForbidden) =>
               /\ result.val.new_auth_token = None
               /\ hs_sent = <<>>
               /\ api_sent[1].headers.Authorization = BearerHeader(ev.arg.some)

\* no token was supplied, the token of the first handshake was answered
\* with 403, and the output holds the other token, that of the second
\* handshake, which the retry carried
C20_Witness ==
    /\ EvalReturnedOutput
    /\ ev.arg = None
    /\ hs_runs = 2
    /\ api_sent[1].headers.Authorization # api_sent[2].headers.Authorization
    /\ result.val.new_auth_token = [some |-> hs_result.val]

\* the standalone eval has returned
EvalReturned == ev # None /\ pc = "idle" /\ result # None

\* C21: in the standalone eval the conversion from crate::Error to
\* EvalError never meets the UpdateAuthToken variant, so unreachable!() is
\* not reached on any path, and a failed handshake is returned as
\* EvalError::Auth carrying the AuthError of the handshake.
C21_EvalNeverConvertsUpdateAuthToken ==
    EvalReturned =>
        /\ ~result.ok => result.err.kind \in {"Auth", "Grid", "Http", "ParseJsonGrid",
                                               "UrlParse", "UrlFormat"}
        /\ (hs_result # None /\ ~hs_result.ok) =>
               /\ ~result.ok
               /\ result.err.kind = "Auth"
               /\ result.err.err = AuthError_from(hs_result.err)

\* a supplied token was answered with 403 and the handshake failed
C21_Witness ==
    /\ EvalReturned
    /\ ev.arg # None
    /\ FirstForbidden
    /\ hs_result # None
    /\ ~hs_result.ok
    /\ result.err.kind = "Auth"

\* has_valid_path_segments has been applied to fn_arg.url
PathChecked == fn_arg # None /\ "f" \in DOMAIN fn_arg
               /\ fn_arg.f = "has_valid_path_segments" /\ fn_ret # None

\* C23: has_valid_path_segments returns true exactly when the path is
\* /api/<project>/: the segment "api", a non-empty project segment, a
\* final empty segment and nothing more.  It returns false without the
\* trailing slash, without a project, with an empty project, with another
\* first segment, or with extra segments.
C23_ValidPathIsApiProjectSlash ==
    PathChecked =>
        /\ fn_ret.val <=>
               /\ ~fn_arg.url.cannot_be_a_base
               /\ Len(fn_arg.url.segs) = 3
               /\ fn_arg.url.segs[1] = <<"api">>
               /\ fn_arg.url.segs[2] # <<>>
               /\ fn_arg.url.segs[3] = <<>>

\* true for a URL with a query, false for the same path with one more segment
C23_Witness ==
    /\ PathChecked
    /\ fn_ret.val
    /\ fn_arg.url.query # None

C23_WitnessFalse ==
    /\ PathChecked
    /\ ~fn_ret.val
    /\ Len(fn_arg.url.segs) = 3
    /\ fn_arg.url.segs[1] = <<"api">>
    /\ fn_arg.url.segs[2] = <<"p">>
    /\ fn_arg.url.segs[3] # <<>>

\* add_backslash_if_necessary has been applied to fn_arg.url
SlashAdded == fn_arg # None /\ "f" \in DOMAIN fn_arg
              /\ fn_arg.f = "add_backslash_if_necessary" /\ fn_ret # None

EndsWithSlash(text) == text # <<>> /\ text[Len(text)] = "/"

\* C24: add_backslash_if_necessary returns its argument when the URL
\* string ends with '/', and otherwise the URL whose string is the original
\* followed by one '/'; the result ends with '/', and applying the function
\* to its result returns the result.
C24_AddBackslashAppendsOnce ==
    SlashAdded =>
        /\ fn_ret.n = 1 =>
               /\ EndsWithSlash(as_str(fn_arg.url)) => fn_ret.val = fn_arg.url
               /\ ~EndsWithSlash(as_str(fn_arg.url)) =>
                      as_str(fn_ret.val) = as_str(fn_arg.url) \o <<"/">>
               /\ EndsWithSlash(as_str(fn_ret.val))
        /\ fn_ret.n = 2 => fn_ret.val = fn_ret.once

\* a URL ending in a query: the '/' lands in the query, and the second
\* application changes nothing
C24_Witness ==
    /\ SlashAdded
    /\ fn_ret.n = 2
    /\ fn_arg.url.query # None
    /\ fn_arg.url.fragment = None
    /\ ~EndsWithSlash(as_str(fn_arg.url))
    /\ fn_ret.val # fn_arg.url

\* the text of the URL given to the entry point that was called
GivenUrlText == IF "new_with_client" \in DOMAIN ev THEN as_str(ev.url) ELSE ev.url

\* the text with a '/' appended if it does not end with one
WithTrailingSlash(text) == IF EndsWithSlash(text) THEN text ELSE text \o <<"/">>

\* the URL can be a base and its path is /api/<project>/
IsProjectApiUrl(url) ==
    /\ ~url.cannot_be_a_base
    /\ Len(url.segs) = 3
    /\ url.segs[1] = <<"api">>
    /\ url.segs[2] # <<>>
    /\ url.segs[3] = <<>>

PassesValidation(text) ==
    /\ Url_parse(text).ok
    /\ IsProjectApiUrl(Url_parse(WithTrailingSlash(text)).val)

\* C22: new_with_client and the standalone eval run the handshake only
\* for a project API URL that, with a trailing slash appended if missing,
\* can be a base and has the path /api/<project>/.  For any other URL they
\* return a URL error, no HTTP request is sent and no client is created.
C22_HandshakeOnlyAfterUrlValidation ==
    ev # None =>
        /\ (hs_sent # <<>> \/ api_sent # <<>> \/ hs_runs > 0 \/ pc # "idle") =>
               PassesValidation(GivenUrlText)
        /\ ~PassesValidation(GivenUrlText) =>
               /\ pc = "idle"
               /\ hs_sent = <<>>
               /\ api_sent = <<>>
               /\ auth_token = None
               /\ result # None
               /\ ~result.ok
               /\ result.err.kind \in (IF "new_with_client" \in DOMAIN ev THEN {"Url"}
                                       ELSE {"UrlParse", "UrlFormat"})
        /\ PassesValidation(GivenUrlText) =>
               /\ hs_runs > 0 \/ api_sent # <<>>
               /\ (result # None /\ ~result.ok) =>
                      result.err.kind \notin {"Url", "UrlParse", "UrlFormat"}

\* new_with_client has refused a URL that has the right path but cannot
\* be a base
C22_Witness ==
    /\ ev # None
    /\ "new_with_client" \in DOMAIN ev
    /\ ev.url.cannot_be_a_base
    /\ result # None
    /\ ~result.ok
    /\ result.err.kind = "Url"
    /\ hs_sent = <<>>

\* eval has refused a URL without a project, and has run the handshake
\* for a URL given without its trailing slash
C22_WitnessEvalRefused ==
    /\ ev # None
    /\ "arg" \in DOMAIN ev
    /\ ev.url = <<"http://h", "/", "api", "/">>
    /\ result # None
    /\ result.err.kind = "UrlFormat"

C22_WitnessSlashAppended ==
    /\ ev # None
    /\ GivenUrlText = <<"http://h", "/", "api", "/", "p">>
    /\ Len(hs_sent) = 3
    /\ result # None
    /\ result.ok

\* a grid is at hand
HasGrid == fn_ret # None /\ "grid" \in DOMAIN fn_ret /\ fn_ret.grid # None

\* the last operation on the grid was op
LastOp(op) == HasGrid /\ fn_arg.op = op /\ fn_ret.old # None

\* the position of a key in the order of strings
Rank(key) == CHOOSE i \in 1..Len(KeyOrder) : KeyOrder[i] = key

\* the column names, read from the JSON of the grid
ColNames(grid) ==
    [i \in 1..Len(grid.json.f.cols.a) |-> grid.json.f.cols.a[i].f.name.s]

ColSet(grid) == {ColNames(grid)[i] : i \in 1..Len(ColNames(grid))}

RowsOf(grid) == grid.json.f.rows.a

Ascending(names) ==
    \A i \in 1..Len(names) : \A j \in 1..Len(names) :
        i < j => Rank(names[i]) < Rank(names[j])

\* C25: the column names of every grid, however obtained (Grid::new,
\* Grid::empty, conversion from a JSON value) and after any sequence of
\* operations, are in ascending order without duplicates.
C25_ColumnsAlwaysSorted == HasGrid => Ascending(ColNames(fn_ret.grid))

\* what does hold: the columns of a grid made by Grid::new or Grid::empty
\* are in ascending order after every operation
ColumnsSortedUnlessFromJson ==
    (HasGrid /\ fn_ret.origin # "try_from") => Ascending(ColNames(fn_ret.grid))

\* the row without the keys given
Without(row, keys) == [k \in DOMAIN row.f \ keys |-> row.f[k]]

\* C26: rename_col(col_name, new_col_name) for any two tag names: when
\* col_name is a column it returns true, new_col_name is a column
\* afterwards and every row that had a value under col_name has that value
\* under new_col_name, and col_name is no column and no row key any more
\* unless the two names are equal; when col_name is not a column it
\* returns false and the grid is unchanged.
C26_RenameColMovesValues ==
    LastOp("rename_col") =>
        IF fn_arg.col_name \in ColSet(fn_ret.old)
        THEN /\ fn_ret.ret = TRUE
             /\ fn_arg.new_col_name \in ColSet(fn_ret.grid)
             /\ \A i \in 1..Len(RowsOf(fn_ret.old)) :
                    fn_arg.col_name \in DOMAIN RowsOf(fn_ret.old)[i].f =>
                        /\ fn_arg.new_col_name \in DOMAIN RowsOf(fn_ret.grid)[i].f
                        /\ RowsOf(fn_ret.grid)[i].f[fn_arg.new_col_name]
                               = RowsOf(fn_ret.old)[i].f[fn_arg.col_name]
             /\ fn_arg.col_name # fn_arg.new_col_name =>
                    /\ fn_arg.col_name \notin ColSet(fn_ret.grid)
                    /\ \A i \in 1..Len(RowsOf(fn_ret.grid)) :
                           fn_arg.col_name \notin DOMAIN RowsOf(fn_ret.grid)[i].f
        ELSE /\ fn_ret.ret = FALSE
             /\ fn_ret.grid = fn_ret.old

\* what does hold: the statement for two different names
RenameColToAnotherName ==
    (LastOp("rename_col") /\ fn_arg.col_name # fn_arg.new_col_name) =>
        C26_RenameColMovesValues

\* C27: remove_cols(names) returns the number of distinct names given
\* that were columns; afterwards none of the names is a column or a key of
\* a row, and the other columns, the rows and the other cells are as before.
C27_RemoveColsCountsDistinctColumns ==
    LastOp("remove_cols") =>
        LET names == {fn_arg.col_names[i] : i \in 1..Len(fn_arg.col_names)} IN
        /\ fn_ret.ret = Cardinality(names \cap ColSet(fn_ret.old))
        /\ ColSet(fn_ret.grid) = ColSet(fn_ret.old) \ names
        /\ Len(RowsOf(fn_ret.grid)) = Len(RowsOf(fn_ret.old))
        /\ \A i \in 1..Len(RowsOf(fn_ret.old)) :
               RowsOf(fn_ret.grid)[i].f = Without(RowsOf(fn_ret.old)[i], names)
        /\ fn_ret.grid.json.f.meta = fn_ret.old.json.f.meta

\* a name given twice and a name that is no column: one column is counted
C27_Witness ==
    /\ LastOp("remove_cols")
    /\ Len(fn_arg.col_names) = 2
    /\ fn_arg.col_names[1] = fn_arg.col_names[2]
    /\ fn_ret.ret = 1
    /\ Len(RowsOf(fn_ret.old)) = 2
    /\ ColSet(fn_ret.grid) # {}

\* the keys of the rows given, and whether add_rows accepts the rows
KeysOf(rows_) == UNION {DOMAIN rows_[i].f : i \in 1..Len(rows_)}

Acceptable(rows_) ==
    /\ \A i \in 1..Len(rows_) : rows_[i].t = "obj"
    /\ \A key \in KeysOf(rows_) : key \in {"a", "b", "c", "expr"}

\* C28: add_rows with a row that is no JSON object or has a key that is no
\* tag name returns an error and leaves rows and columns as they were;
\* otherwise the rows are appended in the order given after the rows
\* present, which are unchanged, and the columns become the union of the
\* old columns and the keys of the new rows.
C28_AddRowsAllOrNothing ==
    LastOp("add_rows") =>
        IF Acceptable(fn_arg.rows)
        THEN /\ fn_ret.ret.ok
             /\ RowsOf(fn_ret.grid) = RowsOf(fn_ret.old) \o fn_arg.rows
             /\ ColSet(fn_ret.grid) = ColSet(fn_ret.old) \cup KeysOf(fn_arg.rows)
        ELSE /\ ~fn_ret.ret.ok
             /\ fn_ret.ret.err.kind = "ParseJsonGrid"
             /\ RowsOf(fn_ret.grid) = RowsOf(fn_ret.old)
             /\ ColNames(fn_ret.grid) = ColNames(fn_ret.old)

\* a row with a tag name the grid does not have, followed by a row with a
\* key that is no tag name: an error, and the column is not added
C28_Witness ==
    /\ LastOp("add_rows")
    /\ Len(fn_arg.rows) = 2
    /\ fn_arg.rows[1] = JObject([a |-> JString("1")])
    /\ fn_arg.rows[2] = JObject([B |-> JString("1")])
    /\ ~fn_ret.ret.ok
    /\ "a" \notin ColSet(fn_ret.old)

\* skyspark_tz_string_to_tz has been applied to fn_arg.s
LookedUp == fn_arg # None /\ "f" \in DOMAIN fn_arg
            /\ fn_arg.f = "skyspark_tz_string_to_tz" /\ fn_ret # None

TzNames == {TZ_VARIANTS[i] : i \in 1..Len(TZ_VARIANTS)}

\* the part after the last '/'
ShortName(name) ==
    IF \E i \in 1..Len(name) : name[i] = "/"
    THEN SubSeq(name, 1 + CHOOSE i \in 1..Len(name) :
                            name[i] = "/" /\ \A j \in (i + 1)..Len(name) : name[j] # "/",
                Len(name))
    ELSE name

\* C29: the lookup of the full name of a zone of the table returns that
\* zone; the lookup of a short name returns a zone with that short name;
\* the lookup of a string that is neither returns None.
C29_TzLookupByFullOrShortName ==
    LookedUp =>
        /\ fn_arg.s \in TzNames => fn_ret.val = [some |-> fn_arg.s]
        /\ (\E z \in TzNames : ShortName(z) = fn_arg.s) =>
               /\ fn_ret.val # None
               /\ ShortName(fn_ret.val.some) = fn_arg.s
        /\ (\A z \in TzNames : z # fn_arg.s /\ ShortName(z) # fn_arg.s) =>
               fn_ret.val = None

\* what does hold: the zone returned has the string as its full or its
\* short name, and is the first such zone of the table
TzLookupReturnsFirstMatch ==
    LookedUp =>
        /\ fn_ret.val # None =>
               /\ fn_ret.val.some \in TzNames
               /\ fn_ret.val.some = fn_arg.s \/ ShortName(fn_ret.val.some) = fn_arg.s
        /\ fn_ret.val = None <=>
               \A z \in TzNames : z # fn_arg.s /\ ShortName(z) # fn_arg.s


\* the call in progress is the standalone eval function
InStandaloneEval == ev # None /\ "arg" \in DOMAIN ev

\* the call has returned, or the process has stopped in a panic
CallOver == pc \in {"idle", "panicked"}

\* every call in progress comes to its end
CallsTerminate == (~CallOver) ~> CallOver

\* C30 as stated: every call through the Session Guard (get, post and the
\* standalone eval) ends after at most two API requests and at most one
\* handshake of at most three requests, given that every round trip returns
C30_AtMostOneHandshakePerCall ==
    /\ [](Len(api_sent) <= 2 /\ hs_runs <= 1 /\ Len(hs_sent) <= 3)
    /\ CallsTerminate

\* C30: every call through the Session Guard ends, given that every round
\* trip returns, after at most two API requests; get and post run at most
\* one handshake, the standalone eval at most two (one when no token is
\* supplied, one after a 403), each of at most three requests, and the
\* retry is sent only after a handshake
C30_GuardTerminatesWithinBounds ==
    /\ [](/\ Len(api_sent) <= 2
          /\ ~InStandaloneEval => hs_runs <= 1
          /\ InStandaloneEval => hs_runs <= (IF ev.arg = None THEN 2 ELSE 1)
          /\ Len(hs_sent) <= 3 * hs_runs
          /\ Len(api_sent) = 2 => hs_runs >= 1)
    /\ CallsTerminate

\* the standalone eval, given no token, in its second handshake after a 403
\* on its first request
C30_Witness ==
    /\ InStandaloneEval
    /\ hs_runs = 2
    /\ Len(hs_sent) = 6
    /\ Len(api_sent) = 2
    /\ pc = "idle"

\* a get or post that has sent its retry after a full handshake and returned
C30_WitnessGet ==
    /\ ev = None
    /\ hs_runs = 1
    /\ Len(hs_sent) = 3
    /\ Len(api_sent) = 2
    /\ pc = "idle"
    /\ retry_res # None


\* the two fragments given to parse_key_value_pairs have been parsed into pairs
KvParsed == fn_arg # None /\ "first" \in DOMAIN fn_arg /\ fn_ret # None /\ fn_ret.parsed.ok

KvFrags == <<fn_arg.first, fn_arg.second>>

\* the position of the first '=' of the text f
FirstEq(f) == CHOOSE i \in 1..Len(f) : f[i] = EQ /\ \A j \in 1..(i - 1) : f[j] # EQ

\* the outcome of get expected of the pairs kvps: the value of the first
\* pair with the key k
FirstWithKey(kvps, k) ==
    IF \A i \in 1..Len(kvps) : kvps[i][1] # k THEN None
    ELSE [some |-> kvps[CHOOSE i \in 1..Len(kvps) :
                            kvps[i][1] = k /\ \A j \in 1..(i - 1) : kvps[j][1] # k][2]]

GetReturnsFirstWithKey ==
    (KvParsed /\ "got" \in DOMAIN fn_ret) =>
        \E want \in {FirstWithKey(fn_ret.parsed.val, fn_arg.key)} :
            IF want = None
            THEN ~fn_ret.got.ok /\ fn_ret.got.err.kind = "KeyValuePairParse"
            ELSE fn_ret.got = Ok(want.some)

\* C38: for a fragment key=value, parse_key_value_pairs keeps as the value
\* exactly the text after the first '=' (later '=' preserved), and get(k)
\* returns the value of the first pair whose key equals k exactly, or a
\* missing-key error
C38_ValueIsTextAfterFirstEq ==
    /\ KvParsed =>
           /\ Len(fn_ret.parsed.val) = 2
           /\ \A n \in 1..2 :
                  /\ fn_ret.parsed.val[n][1] = SubSeq(KvFrags[n], 1, FirstEq(KvFrags[n]) - 1)
                  /\ fn_ret.parsed.val[n][2] =
                         SubSeq(KvFrags[n], FirstEq(KvFrags[n]) + 1, Len(KvFrags[n]))
    /\ GetReturnsFirstWithKey

\* the text f without the '=' it begins with
RECURSIVE WithoutLeadingEq(_)
WithoutLeadingEq(f) ==
    IF f # <<>> /\ Head(f) = EQ THEN WithoutLeadingEq(Tail(f)) ELSE f

\* what the parse does: the value is the text after the first '=' without
\* the '=' that text begins with; '=' further on are kept
KvValueDropsLeadingEq ==
    /\ KvParsed =>
           /\ Len(fn_ret.parsed.val) = 2
           /\ \A n \in 1..2 :
                  /\ fn_ret.parsed.val[n][1] = SubSeq(KvFrags[n], 1, FirstEq(KvFrags[n]) - 1)
                  /\ fn_ret.parsed.val[n][2] =
                         WithoutLeadingEq(SubSeq(KvFrags[n], FirstEq(KvFrags[n]) + 1,
                                                 Len(KvFrags[n])))
    /\ GetReturnsFirstWithKey

\* k=a= is parsed with its last '=' kept, and get finds the first of two
\* pairs with the key k
KvPaddingKept ==
    /\ KvParsed
    /\ "got" \in DOMAIN fn_ret
    /\ fn_arg.first = Str(<<"k", "=", "=">>) \/ fn_arg.first = Str(<<"k", "=", "a">>)
    /\ fn_arg.second = Str(<<"k", "=", "K">>)
    /\ fn_arg.key = Str(<<"k">>)
    /\ fn_ret.got.ok


\* a call has returned the failure of its handshake
HandshakeFailureReturned ==
    /\ pc = "idle"
    /\ hs_result # None
    /\ ~hs_result.ok
    /\ result # None
    /\ ~result.ok
    /\ result.err.kind \in {"UpdateAuthToken", "Auth"}

\* the last handshake response carried a server signature that does not
\* match
SignatureMismatch == faults # <<>> /\ faults[Len(faults)] = "signature"

\* C32: the public AuthError of a failed handshake is ServerValidation,
\* with the same server id, exactly when the internal error is
\* ServerValidation, Http exactly for transport errors and Internal exactly
\* for handshake errors; a server-signature mismatch reaches the caller as
\* ServerValidation
C32_ServerValidationStaysDistinct ==
    HandshakeFailureReturned =>
        \E internal \in {hs_result.err}, public \in {result.err.err} :
            /\ internal.variant = "ServerValidation" <=> public.variant = "ServerValidation"
            /\ public.variant = "ServerValidation" =>
                   public.server_id = internal.server_id /\ public.server_id = auth_url
            /\ internal.variant = "Http" <=> public.variant = "Http"
            /\ internal.variant = "Handshake" <=> public.variant = "Internal"
            /\ public.variant = "Internal" => public.err = internal.err
            /\ SignatureMismatch => public.variant = "ServerValidation"

C32_Witness ==
    /\ HandshakeFailureReturned
    /\ SignatureMismatch
    /\ result.err.err.variant = "ServerValidation"

\* a transport error and a malformed response of the handshake, as returned
C32_WitnessOtherKinds ==
    /\ HandshakeFailureReturned
    /\ result.err.err.variant \in {"Http", "Internal"}
    /\ InStandaloneEval


\* a guarded call has returned Ok
CallReturnedOk == pc = "idle" /\ result # None /\ result.ok /\ first_res # None

\* the response whose body the call parsed: that to the retry when there
\* was one, otherwise the first
ParsedResponse == IF retry_res # None THEN retry_res ELSE first_res

\* C33: a guarded call returns Ok(grid) only when the response whose body
\* it parsed had a successful (2xx) status; a response with an error status
\* is never turned into a successful result
C33_OkOnlyFromSuccessStatus ==
    CallReturnedOk => ParsedResponse.transport_ok /\ ParsedResponse.status = 200

\* what the calls do: Ok comes from any response with a body that parses
\* into a grid that is not an error grid, whatever its status, except a
\* first response with the status 403
OkFromAnyStatusWithGridBody ==
    CallReturnedOk =>
        /\ ParsedResponse.transport_ok
        /\ ParsedResponse.status \in Statuses
        /\ retry_res = None => first_res.status # FORBIDDEN
        /\ last_body.ok
        /\ Grid_try_from(last_body.val).ok
        /\ ~is_error(Grid_try_from(last_body.val).val)

\* a call that returned Ok on a response with the status 500
OkFromServerError == CallReturnedOk /\ ParsedResponse.status = 500


\* generate_nonce has returned for the two outcomes of rng.fill
NoncesMade == fn_arg # None /\ "a" \in DOMAIN fn_arg /\ fn_ret # None

\* C34: generate_nonce hex-encodes the 32 random bytes with two digits per
\* byte, so every nonce has exactly 64 characters and two different byte
\* sequences never give the same nonce; a failure of the generator is
\* returned as a GenerateNonce error
C34_NonceIsTwoDigitsPerByte ==
    NoncesMade =>
        /\ fn_arg.a.ok => fn_ret.a.ok /\ Len(fn_ret.a.val) = 2 * nonce_len
        /\ (fn_arg.a.ok /\ fn_arg.b.ok /\ fn_arg.a.val # fn_arg.b.val) =>
               fn_ret.a.val # fn_ret.b.val
        /\ ~fn_arg.a.ok => ~fn_ret.a.ok /\ fn_ret.a.err.kind = "GenerateNonce"

\* what generate_nonce does: one digit for a byte below 16 and two for the
\* others, so a nonce has between 32 and 64 characters; a failure of the
\* generator is returned as a GenerateNonce error
NonceIsOneOrTwoDigitsPerByte ==
    NoncesMade =>
        /\ fn_arg.a.ok =>
               /\ fn_ret.a.ok
               /\ Len(fn_ret.a.val) =
                      2 * nonce_len - Cardinality({i \in 1..nonce_len : fn_arg.a.val[i] < 16})
        /\ ~fn_arg.a.ok => ~fn_ret.a.ok /\ fn_ret.a.err.kind = "GenerateNonce"

\* two different fillings of the buffer with the same nonce
NonceCollision ==
    /\ NoncesMade
    /\ fn_arg.a.ok /\ fn_arg.b.ok
    /\ fn_arg.a.val # fn_arg.b.val
    /\ fn_ret.a = fn_ret.b

\* in a call of the client, after a failure of the generator the handshake
\* ends with the GenerateNonce error and only HELLO was sent
NoRoundTwoAfterGeneratorFailure ==
    (rng_out # None /\ ~rng_out.ok) =>
        /\ Len(hs_sent) = 1
        /\ hs_result = Err(Handshake(GenerateNonceError))
        /\ pc = "idle"


\* the output length of the hash function h, in bytes
HashLen(h) == IF h = "Sha256" THEN 32 ELSE 64

\* PBKDF2(password, decoded salt, iterations) of the attempt in progress,
\* from what the server sent in round 2
ExpectedSaltedPassword ==
    [fn |-> "pbkdf2", hf |-> srv.hash_fn, key |-> [txt |-> password],
     salt |-> srv.memo.salt, iterations |-> srv.memo.iterations,
     len |-> HashLen(srv.hash_fn)]

\* HMAC(salted_password, "Client Key")
ExpectedClientKey ==
    [fn |-> "hmac", hf |-> srv.hash_fn, key |-> ExpectedSaltedPassword,
     data |-> [lit |-> "Client Key", len |-> 10], len |-> HashLen(srv.hash_fn)]

\* HMAC(Hash(client_key), auth_message)
ExpectedClientSignature ==
    [fn |-> "hmac", hf |-> srv.hash_fn,
     key |-> [fn |-> "digest", hf |-> srv.hash_fn, input |-> ExpectedClientKey,
              len |-> HashLen(srv.hash_fn)],
     data |-> [txt |-> AuthMessageOf(srv.memo)], len |-> HashLen(srv.hash_fn)]

\* C35: the client proof sent in round 3 is the byte-wise XOR of client_key
\* = HMAC(salted_password, "Client Key") and client_signature =
\* HMAC(Hash(client_key), auth_message), with salted_password =
\* PBKDF2(password, decoded salt, iterations); both have the length of the
\* hash (32 or 64 bytes) and so has the proof; the round-3 data is
\* base64(client_final_no_proof + ",p=" + base64(proof))
C35_ClientProofIsXorOfKeyAndSignature ==
    pc = "server_second" =>
        /\ Len(hs_sent) = 3
        /\ ProofIn(hs_sent[3]) =
               [fn |-> "xor", a |-> ExpectedClientKey, b |-> ExpectedClientSignature,
                len |-> HashLen(srv.hash_fn)]
        /\ ExpectedClientKey.len = ExpectedClientSignature.len
        /\ ProofIn(hs_sent[3]).len \in {32, 64}
        /\ hs_sent[3].Authorization =
               Str(<<"S", "C", "R", "A", "M", " ", "h", "a", "n", "d", "s", "h", "a", "k", "e",
                     "T", "o", "k", "e", "n", "=">>)
               \o srv.handshake_token \o Str(<<",", " ", "d", "a", "t", "a", "=">>)
               \o <<B64Sym([txt |-> Str(<<"c", "=", "b", "i", "w", "s", ",", "r", "=">>)
                                    \o srv.memo.server_nonce \o Str(<<",", "p", "=">>)
                                    \o <<B64Sym(ProofIn(hs_sent[3]))>>])>>

\* round 3 of an attempt with SHA-512 is in flight, with a proof of 64 bytes
C35_Witness ==
    /\ pc = "server_second"
    /\ srv.hash_fn = "Sha512"
    /\ ProofIn(hs_sent[3]).len = 64
    /\ ProofIn(hs_sent[3]).a.len = 64
    /\ ProofIn(hs_sent[3]).b.len = 64


C37_WitnessRename ==
    /\ LastOp("rename_col")
    /\ fn_ret.origin = "new"
    /\ fn_arg.col_name # fn_arg.new_col_name
    /\ {fn_arg.col_name, fn_arg.new_col_name} \subseteq ColSet(fn_ret.old)
    /\ fn_ret.ret = TRUE


\* a guarded call of the client is between its first send and its return
CallInFlight == pc \in {"first", "hello", "server_first", "server_second", "retry"}

\* from the first send of a call to its return every step belongs to that
\* call: no other call begins, the only API request sent is the retry of
\* that call with the token just stored, and auth_token is written only by
\* the refresh of the call in flight
C31_Step ==
    /\ CallInFlight => call' = call
    /\ call' # call => pc = "idle" /\ pc' = "first" /\ Len(api_sent') = 1
    /\ (CallInFlight /\ api_sent' # api_sent) =>
           /\ pc = "server_second" /\ pc' = "retry"
           /\ api_sent' = Append(api_sent, Last(api_sent'))
           /\ Last(api_sent').url = call.url
           /\ Last(api_sent').method = call.method
           /\ Last(api_sent').headers.Authorization = BearerHeader(auth_token')
    /\ auth_token' # auth_token => pc = "server_second" /\ pc' = "retry"

\* C31: calls on one SkySparkClient cannot overlap: from the first send of
\* a guarded call until it returns no other call on the client reads or
\* writes auth_token, so a refresh never interleaves with another request
\* in flight that uses the stale token
C31_CallsDoNotOverlap ==
    /\ [](/\ pc \in {"hello", "server_first", "server_second"} =>
                 first_res # None /\ Len(api_sent) = 1 /\ retry_res = None
          /\ pc = "retry" =>
                 /\ Len(api_sent) = 2
                 /\ api_sent[2].headers.Authorization = BearerHeader(auth_token)
                 /\ first_res # None
          /\ pc = "first" => Len(api_sent) = 1 /\ first_res = None)
    /\ [][C31_Step]_vars

\* a call that followed a call with a refresh has itself refreshed the
\* token and has its retry in flight
C31_Witness ==
    /\ pc = "retry"
    /\ refreshes = 2
    /\ Len(api_sent) = 2
    /\ api_sent[1].headers.Authorization # api_sent[2].headers.Authorization


\* a get or post of the client has returned
GuardedCallReturned == pc = "idle" /\ ev = None /\ first_res # None

\* the token carried by the API request req, after "BEARER authToken="
TokenSent(req) ==
    SubSeq(req.headers.Authorization, 18, Len(req.headers.Authorization))

\* a response as the server gave it, from its status and its body
FullResponse(status_, body) ==
    IF ~status_.transport_ok THEN [transport_ok |-> FALSE, fault |-> "transport"]
    ELSE [transport_ok |-> TRUE, status |-> status_.status, body |-> body]

\* the responses and the handshake outcome the call that returned was given
FirstGiven == FullResponse(first_res, IF retry_res = None THEN last_body ELSE Err("unread"))

RetryGiven ==
    IF retry_res = None THEN [transport_ok |-> FALSE, fault |-> "transport"]
    ELSE FullResponse(retry_res, last_body)

HandshakeGiven == IF hs_result = None THEN Err([variant |-> "Http"]) ELSE hs_result

\* C36: the blocking client and the async client implement the same Session
\* Guard: for the same initial token and the same server responses the
\* blocking get/post send the same requests, leave the same auth_token and
\* return the same result as the async get/post, and both run the
\* handshake against the same URL
C36_BlockingEqualsAsync ==
    GuardedCallReturned =>
        /\ \E axon_expr \in AxonExprs :
               (IF call.method = "GET"
                THEN blocking_about(TokenSent(api_sent[1]), project_api_url,
                                    FirstGiven, HandshakeGiven, RetryGiven)
                ELSE blocking_eval(TokenSent(api_sent[1]), project_api_url, axon_expr,
                                   FirstGiven, HandshakeGiven, RetryGiven))
               = [sent |-> api_sent, auth_token |-> auth_token, result |-> result]
        /\ \A i \in 1..Len(hs_sent) : hs_sent[i].url = blocking_auth_url(project_api_url)

\* an eval answered with 403, a handshake that gave another token and a
\* retry that returned a grid
C36_Witness ==
    /\ GuardedCallReturned
    /\ call.method = "POST"
    /\ Len(api_sent) = 2
    /\ TokenSent(api_sent[1]) # auth_token
    /\ result.ok

\* an about whose handshake failed, and one answered at once
C36_WitnessGet ==
    /\ GuardedCallReturned
    /\ call.method = "GET"
    /\ hs_result # None /\ ~hs_result.ok
    /\ result = Err([kind |-> "UpdateAuthToken", err |-> result.err.err])

=============================================================================
